---- MODULE Spec2Model ----
(***************************************************************************)
(* Model of the layered market-making worker                               *)
(* src/hummingbot/strategies/pure_market_making/v_1_0_0/worker.py          *)
(*                                                                         *)
(* The worker runs on one asyncio event loop.  Three coroutines share its  *)
(* fields: start (initialize, then the tick loop), the on_tick task that   *)
(* start creates and awaits, and stop.  A coroutine runs without           *)
(* interruption between two awaits that suspend; every action below is one *)
(* such run.  The venue (gateway) is the environment.                      *)
(***************************************************************************)
EXTENDS Integers, Sequences, FiniteSets, TLC

\* ------------------------------------------------------------------ bounds
\* The clock (milliseconds) stops advancing at MaxTime.
MaxTime == 8
\* The venue hands out the order ids 1..MaxIds to the worker's placements.
MaxIds == 4
\* Helpers applied on their own: the layers of a configuration, the orders of
\* a proposal handed to the budget adjuster and the balances it reads, the tick
\* intervals and clock readings of the waiting time, the open orders scanned
\* for duplicates.
MaxLayers == 2
MaxOrders == 3
MaxBalance == 7
MaxInterval == 6
MaxClock == 12
MaxOpen == 3

\* ------------------------------------------------------ decimal arithmetic
\* Decimal values are exact fractions n/d with d > 0, kept in lowest terms.
RECURSIVE GCD(_, _)
GCD(a, b) == IF b = 0 THEN a ELSE GCD(b, a % b)

Abs(x) == IF x < 0 THEN -x ELSE x

Reduce(n, d, g) == [n |-> n \div g, d |-> d \div g]
Rat(n, d) == IF n = 0 THEN [n |-> 0, d |-> 1] ELSE Reduce(n, d, GCD(Abs(n), d))

Dec(i) == Rat(i, 1)
DECIMAL_ZERO == Dec(0)
\* Not-a-number: the one value with denominator 0.
DECIMAL_NAN == [n |-> 0, d |-> 0]

RLt(x, y) == x.n * y.d < y.n * x.d
RLe(x, y) == x.n * y.d <= y.n * x.d
RMul(x, y) == Rat(x.n * y.n, x.d * y.d)
RSub(x, y) == Rat(x.n * y.d - y.n * x.d, x.d * y.d)
RAdd(x, y) == Rat(x.n * y.d + y.n * x.d, x.d * y.d)
\* x / y for y # 0
RDiv(x, y) == IF y.n < 0 THEN Rat(-(x.n * y.d), x.d * (-y.n)) ELSE Rat(x.n * y.d, x.d * y.n)
RMin(x, y) == IF RLt(y, x) THEN y ELSE x
RMax(x, y) == IF RLt(x, y) THEN y ELSE x

\* ------------------------------------------------------------ venue data
\* What the gateway can answer in one tick: the raw order book, the ticker,
\* the filled orders (most recent first) and the free balances.
Level(p, a) == [price |-> Dec(p), amount |-> Dec(a)]

VenueData ==
    { [book     |-> [bids |-> <<Level(10, 1)>>, asks |-> <<Level(12, 1)>>],
       ticker   |-> Dec(11),
       filled   |-> <<Dec(11)>>,
       balances |-> [base |-> Dec(100), quote |-> Dec(100)]],
      [book     |-> [bids |-> <<Level(9, 2), Level(10, 1)>>, asks |-> <<Level(12, 1)>>],
       ticker   |-> Dec(11),
       filled   |-> <<>>,
       balances |-> [base |-> Dec(4), quote |-> Dec(7)]],
      [book     |-> [bids |-> <<>>, asks |-> <<>>],
       ticker   |-> Dec(0),
       filled   |-> <<>>,
       balances |-> [base |-> Dec(100), quote |-> Dec(100)]] }

\* The market descriptor fetched by initialize.
Markets == { [minimumPriceIncrement |-> Dec(1), minimumOrderSize |-> Dec(1)] }

\* ---------------------------------------------------------- configuration
Side(q, s, l) == [quantity |-> q, spread_percentage |-> s, max_liquidity_in_dollars |-> l]

Configurations ==
    { [tick_interval |-> 2, run_only_once |-> FALSE,
       cancel_all_orders_on_start |-> FALSE, withdraw_market_on_start |-> FALSE,
       cancel_all_orders_on_stop |-> TRUE, withdraw_market_on_stop |-> TRUE,
       withdraw_market_on_tick |-> FALSE,
       price_strategy |-> "MIDDLE", middle_price_strategy |-> "SAP",
       layers |-> << [bid |-> Side(1, 10, 100), ask |-> Side(0, 10, 100)] >>],
      [tick_interval |-> 3, run_only_once |-> TRUE,
       cancel_all_orders_on_start |-> TRUE, withdraw_market_on_start |-> TRUE,
       cancel_all_orders_on_stop |-> FALSE, withdraw_market_on_stop |-> FALSE,
       withdraw_market_on_tick |-> TRUE,
       price_strategy |-> "TICKER", middle_price_strategy |-> "SAP",
       layers |-> << [bid |-> Side(1, 10, 100), ask |-> Side(1, 10, 100)] >>],
      [tick_interval |-> 2, run_only_once |-> FALSE,
       cancel_all_orders_on_start |-> FALSE, withdraw_market_on_start |-> FALSE,
       cancel_all_orders_on_stop |-> FALSE, withdraw_market_on_stop |-> FALSE,
       withdraw_market_on_tick |-> FALSE,
       price_strategy |-> "UNKNOWN", middle_price_strategy |-> "SAP",
       layers |-> << [bid |-> Side(1, 10, 100), ask |-> Side(1, 10, 100)] >>],
      [tick_interval |-> 3, run_only_once |-> FALSE,
       cancel_all_orders_on_start |-> TRUE, withdraw_market_on_start |-> FALSE,
       cancel_all_orders_on_stop |-> FALSE, withdraw_market_on_stop |-> FALSE,
       withdraw_market_on_tick |-> FALSE,
       price_strategy |-> "LAST_FILL", middle_price_strategy |-> "SAP",
       layers |-> << [bid |-> Side(1, 10, 100), ask |-> Side(1, 10, 100)] >>] }

\* ---------------------------------------------------------- pure helpers
RECURSIVE InsertByPrice(_, _, _)
\* Inserts level x after every level of the sorted sequence s that does not
\* come strictly after it (list.sort is stable).
InsertByPrice(s, x, desc) ==
    IF s = <<>> THEN <<x>>
    ELSE IF (IF desc THEN RLt(Head(s).price, x.price) ELSE RLt(x.price, Head(s).price))
         THEN <<x>> \o s
         ELSE <<Head(s)>> \o InsertByPrice(Tail(s), x, desc)

RECURSIVE SortByPrice(_, _)
SortByPrice(s, desc) ==
    IF s = <<>> THEN <<>>
    ELSE InsertByPrice(SortByPrice(SubSeq(s, 1, Len(s) - 1), desc), s[Len(s)], desc)

\* _parse_order_book: bids by price descending, asks by price ascending.
parse_order_book(orderbook) ==
    [bids |-> SortByPrice(orderbook.bids, TRUE), asks |-> SortByPrice(orderbook.asks, FALSE)]

\* hummingbot.constants.VWAP_THRESHOLD: the percentage of the levels of a side
\* that VWAP looks at.
VWAP_THRESHOLD == 30

\* The names of MiddlePriceStrategy that _calculate_middle_price tells apart.
MiddlePriceStrategy == {"SAP", "WAP", "VWAP"}

\* _split_percentage, for one side: its first ceil(VWAP_THRESHOLD % of its
\* length) levels.
split_percentage(levels) ==
    SubSeq(levels, 1, (VWAP_THRESHOLD * Len(levels) + 99) \div 100)

\* np.percentile of the prices of a side kept in ascending order, with linear
\* interpolation between the two nearest ranks.
percentile(ascending, q) ==
    IF (q * (Len(ascending) - 1)) % 100 = 0
    THEN ascending[(q * (Len(ascending) - 1)) \div 100 + 1].price
    ELSE RAdd(ascending[(q * (Len(ascending) - 1)) \div 100 + 1].price,
              RMul(Rat((q * (Len(ascending) - 1)) % 100, 100),
                   RSub(ascending[(q * (Len(ascending) - 1)) \div 100 + 2].price,
                        ascending[(q * (Len(ascending) - 1)) \div 100 + 1].price)))

\* _remove_outliers: asks under 1.5 times the 75th percentile, bids over 0.5
\* times the 25th percentile.
remove_outliers(order_book, is_bid) ==
    IF is_bid
    THEN SelectSeq(order_book,
                   LAMBDA o : RLt(RMul(Rat(1, 2),
                                       percentile(SortByPrice(order_book, FALSE), 25)),
                                  o.price))
    ELSE SelectSeq(order_book,
                   LAMBDA o : RLt(o.price,
                                  RMul(Rat(3, 2),
                                       percentile(SortByPrice(order_book, FALSE), 75))))

RECURSIVE cumsum(_, _)
\* The last element of np.cumsum over the levels: the sum of the amounts
\* (weighted FALSE) or of amount times price (weighted TRUE).
cumsum(levels, weighted) ==
    IF levels = <<>> THEN DECIMAL_ZERO
    ELSE RAdd(cumsum(Tail(levels), weighted),
              IF weighted THEN RMul(Head(levels).amount, Head(levels).price)
              ELSE Head(levels).amount)

\* _compute_volume_weighted_average_price, its last element; 0 / 0 is nan.
compute_volume_weighted_average_price(levels) ==
    IF cumsum(levels, FALSE).n = 0 THEN DECIMAL_NAN
    ELSE RDiv(cumsum(levels, TRUE), cumsum(levels, FALSE))

\* The levels VWAP averages over (lines 1011-1019).
vwap_book(bids, asks) ==
    (IF Len(split_percentage(bids)) > 0
     THEN remove_outliers(split_percentage(bids), TRUE) ELSE <<>>)
    \o (IF Len(split_percentage(asks)) > 0
        THEN remove_outliers(split_percentage(asks), FALSE) ELSE <<>>)

\* The best levels WAP weighs (lines 988-1001): price and amount 0 for a
\* missing side.
wap_level(levels) ==
    IF Len(levels) > 0 THEN levels[1] ELSE [price |-> DECIMAL_ZERO, amount |-> DECIMAL_ZERO]

\* _calculate_middle_price on a parsed book (bids by price descending, asks
\* ascending).  SAP: (best ask + best bid) / 2, a missing side counting 0.
\* WAP: the best prices weighted by their amounts, 0 without amounts.  VWAP:
\* the average of the trimmed book weighted by amounts, 0 when it is empty.
\* The code computes in binary floating point; the values here are exact.
calculate_middle_price(bids, asks, strategy) ==
    CASE strategy = "SAP" ->
            RDiv(RAdd(IF Len(asks) > 0 THEN asks[1].price ELSE DECIMAL_ZERO,
                      IF Len(bids) > 0 THEN bids[1].price ELSE DECIMAL_ZERO),
                 Dec(2))
      [] strategy = "WAP" ->
            IF RLt(DECIMAL_ZERO, RAdd(wap_level(asks).amount, wap_level(bids).amount))
            THEN RDiv(RAdd(RMul(wap_level(asks).price, wap_level(asks).amount),
                           RMul(wap_level(bids).price, wap_level(bids).amount)),
                      RAdd(wap_level(asks).amount, wap_level(bids).amount))
            ELSE DECIMAL_ZERO
      [] strategy = "VWAP" ->
            IF Len(vwap_book(bids, asks)) > 0
            THEN compute_volume_weighted_average_price(vwap_book(bids, asks))
            ELSE DECIMAL_ZERO

\* _get_market_middle_price (lines 417-435): with a strategy, that strategy;
\* with None, VWAP first.  Its later attempts (WAP, SAP, the ticker) run only
\* when the attempt before raises, which no attempt does on numeric levels.
get_market_middle_price(bids, asks, strategy) ==
    IF strategy # "None" THEN calculate_middle_price(bids, asks, strategy)
    ELSE calculate_middle_price(bids, asks, "VWAP")

\* Line 262: the configured middle_price_strategy, SAP when there is none.
middle_price_strategy_of(cfg) ==
    IF cfg.middle_price_strategy = "unset" THEN "SAP" ELSE cfg.middle_price_strategy

\* Faulty variant: with no filled order the price is 1, not NaN.
last_filled_order_price_defaults_to_one(filled) ==
    IF Len(filled) > 0 THEN filled[1] ELSE Dec(1)

\* _get_last_filled_order_price: the price of the first filled order, or NaN.
get_last_filled_order_price(filled) ==
    IF Len(filled) > 0 THEN filled[1] ELSE DECIMAL_NAN

\* The names of PriceStrategy that line 258 looks the configured value up in;
\* the lookup of any other name raises KeyError.
PriceStrategy == {"TICKER", "MIDDLE", "LAST_FILL"}

\* The price a tick uses (lines 258-272).
used_price(bids, asks, ticker_price, filled, cfg) ==
    CASE cfg.price_strategy = "TICKER" -> ticker_price
      [] cfg.price_strategy = "MIDDLE" ->
            get_market_middle_price(bids, asks, middle_price_strategy_of(cfg))
      [] cfg.price_strategy = "LAST_FILL" -> get_last_filled_order_price(filled)

\* Faulty variant of the gates: the size of an order is not looked at.
layer_gates_without_size_gate(l, market_price, size, mkt) ==
    IF RLt(market_price, mkt.minimumPriceIncrement) THEN [kind |-> "skip"]
    ELSE [kind |-> "orders", price |-> market_price, amount |-> size,
          quantity |-> l.quantity]

\* One side of one layer (lines 285-314 for bids, 318-349 for asks): the
\* result is "raise" when a statement fails, "skip" when a gate discards the
\* layer's side, else the price and the size of its orders.  Sizes are exact
\* fractions (the code rounds a quotient to 28 significant digits).
\* Lines 292-314, 325-349: the two gates.
layer_gates(l, market_price, size, mkt) ==
    IF RLt(market_price, mkt.minimumPriceIncrement) THEN [kind |-> "skip"]
    ELSE IF RLt(size, mkt.minimumOrderSize) THEN [kind |-> "skip"]
    ELSE [kind |-> "orders", price |-> market_price, amount |-> size,
          quantity |-> l.quantity]

\* Lines 290, 323: the size of one order; a division by a price of 0 raises.
layer_size(l, market_price, mkt) ==
    IF l.quantity > 0 /\ market_price.n = 0 THEN [kind |-> "raise"]
    ELSE layer_gates(l, market_price,
                     IF l.quantity > 0
                     THEN RDiv(RDiv(Dec(l.max_liquidity_in_dollars), market_price),
                               Dec(l.quantity))
                     ELSE DECIMAL_ZERO,
                     mkt)

\* Faulty variant of the price: the best price of the other side is not
\* looked at.
layer_side_without_clamp(l, is_bid, price, book_side, mkt) ==
    IF book_side = <<>> THEN [kind |-> "raise"]
    ELSE layer_size(l,
                    IF is_bid
                    THEN RMul(Rat(100 - l.spread_percentage, 100), price)
                    ELSE RMul(Rat(100 + l.spread_percentage, 100), price),
                    mkt)

\* Lines 285-288, 318-321: the price; reading the best price of an empty side
\* raises (the default of next() is a dict, which has no attribute price).
layer_side(l, is_bid, price, book_side, mkt) ==
    IF book_side = <<>> THEN [kind |-> "raise"]
    ELSE layer_size(l,
                    IF is_bid
                    THEN RMul(Rat(100 - l.spread_percentage, 100),
                              RMin(price, book_side[1].price))
                    ELSE RMul(Rat(100 + l.spread_percentage, 100),
                              RMax(price, book_side[1].price)),
                    mkt)

RECURSIVE str(_)
\* str() of a positive integer (lines 305, 340): its decimal digits.
str(n) == IF n < 10 THEN <<n>> ELSE Append(str(n \div 10), n % 10)

\* The orders of a layer's side, given what layer_side found.
layer_orders(r, is_bid, client_id) ==
    [i \in 1..(IF r.kind = "orders" THEN r.quantity ELSE 0) |->
        [client_id |-> str(client_id + i - 1),
         side |-> IF is_bid THEN "BUY" ELSE "SELL",
         price |-> r.price, amount |-> r.amount]]

side_join(mine, rest) ==
    IF rest.ok
    THEN [ok |-> TRUE, orders |-> mine \o rest.orders, client_id |-> rest.client_id]
    ELSE [ok |-> FALSE]

RECURSIVE side_orders(_, _, _, _, _, _)
RECURSIVE side_layer(_, _, _, _, _, _, _)
\* The orders of one side over all layers, client ids counting up from
\* client_id; [ok |-> FALSE] when a layer raises.
side_orders(layers, is_bid, price, book_side, mkt, client_id) ==
    IF layers = <<>> THEN [ok |-> TRUE, orders |-> <<>>, client_id |-> client_id]
    ELSE side_layer(layer_side(IF is_bid THEN Head(layers).bid ELSE Head(layers).ask,
                               is_bid, price, book_side, mkt),
                    Tail(layers), is_bid, price, book_side, mkt, client_id)

side_layer(r, layers, is_bid, price, book_side, mkt, client_id) ==
    IF r.kind = "raise" THEN [ok |-> FALSE]
    ELSE side_join(layer_orders(r, is_bid, client_id),
                   side_orders(layers, is_bid, price, book_side, mkt,
                               client_id + (IF r.kind = "orders" THEN r.quantity ELSE 0)))

\* Faulty variant of line 351: the asks come first.
proposal_join_asks_first(b, a) ==
    IF ~a.ok THEN [ok |-> FALSE] ELSE [ok |-> TRUE, orders |-> a.orders \o b.orders]

\* Line 351: [*proposal, *bid_orders, *ask_orders].
proposal_join(b, a) ==
    IF ~a.ok THEN [ok |-> FALSE] ELSE [ok |-> TRUE, orders |-> b.orders \o a.orders]

\* Line 316-351: the asks follow the bids, their client ids too.
proposal_asks(b, price, book, cfg, mkt) ==
    IF ~b.ok THEN [ok |-> FALSE]
    ELSE proposal_join(b, side_orders(cfg.layers, FALSE, price, book.bids, mkt, b.client_id))

\* Lines 274-351: a price that is NaN or not positive raises.
proposal_at(price, book, cfg, mkt) ==
    IF price.d = 0 THEN [ok |-> FALSE]
    ELSE IF RLe(price, DECIMAL_ZERO) THEN [ok |-> FALSE]
    ELSE proposal_asks(side_orders(cfg.layers, TRUE, price, book.asks, mkt, 1),
                       price, book, cfg, mkt)

\* _create_proposal after its two gateway calls: [ok |-> FALSE] when it raises.
create_proposal(book, ticker_price, filled, cfg, mkt) ==
    IF cfg.price_strategy \notin PriceStrategy THEN [ok |-> FALSE]
    ELSE IF /\ cfg.price_strategy = "MIDDLE"
            /\ middle_price_strategy_of(cfg) \notin MiddlePriceStrategy
    THEN [ok |-> FALSE]
    ELSE proposal_at(used_price(book.bids, book.asks, ticker_price, filled, cfg),
                     book, cfg, mkt)

\* The budget walk with the two comparisons of lines 373 and 379 not strict.
RECURSIVE adjust_walk_admits_equal(_, _, _)
adjust_walk_admits_equal(proposal, current_base_balance, current_quote_balance) ==
    IF proposal = <<>> THEN <<>>
    ELSE IF Head(proposal).side = "BUY"
    THEN IF RLe(Head(proposal).amount, current_quote_balance)
         THEN <<Head(proposal)>> \o
              adjust_walk_admits_equal(Tail(proposal), current_base_balance,
                          RSub(current_quote_balance, Head(proposal).amount))
         ELSE adjust_walk_admits_equal(Tail(proposal), current_base_balance,
                                       current_quote_balance)
    ELSE IF RLe(Head(proposal).amount, current_base_balance)
         THEN <<Head(proposal)>> \o
              adjust_walk_admits_equal(Tail(proposal),
                          RSub(current_base_balance, Head(proposal).amount),
                          current_quote_balance)
         ELSE adjust_walk_admits_equal(Tail(proposal), current_base_balance,
                                       current_quote_balance)

\* The budget walk without the subtractions of lines 374 and 380: every order
\* is compared with the whole free balance.
RECURSIVE adjust_walk_keeps_balance(_, _, _)
adjust_walk_keeps_balance(proposal, current_base_balance, current_quote_balance) ==
    IF proposal = <<>> THEN <<>>
    ELSE IF RLt(Head(proposal).amount,
                IF Head(proposal).side = "BUY" THEN current_quote_balance
                ELSE current_base_balance)
    THEN <<Head(proposal)>> \o
         adjust_walk_keeps_balance(Tail(proposal), current_base_balance,
                                   current_quote_balance)
    ELSE adjust_walk_keeps_balance(Tail(proposal), current_base_balance,
                                   current_quote_balance)

RECURSIVE adjust_walk(_, _, _)
\* Lines 371-385: the walk over the proposal with the running balances.
adjust_walk(proposal, current_base_balance, current_quote_balance) ==
    IF proposal = <<>> THEN <<>>
    ELSE IF Head(proposal).side = "BUY"
    THEN IF RLt(Head(proposal).amount, current_quote_balance)
         THEN <<Head(proposal)>> \o
              adjust_walk(Tail(proposal), current_base_balance,
                          RSub(current_quote_balance, Head(proposal).amount))
         ELSE adjust_walk(Tail(proposal), current_base_balance, current_quote_balance)
    ELSE IF RLt(Head(proposal).amount, current_base_balance)
         THEN <<Head(proposal)>> \o
              adjust_walk(Tail(proposal),
                          RSub(current_base_balance, Head(proposal).amount),
                          current_quote_balance)
         ELSE adjust_walk(Tail(proposal), current_base_balance, current_quote_balance)

\* _adjust_proposal_to_budget on the cached balances.
adjust_proposal_to_budget(candidate_proposal, bal) ==
    adjust_walk(candidate_proposal, bal.base, bal.quote)

\* Venue ids are strings, here sequences of digits; list.sort compares them as
\* Python compares str, character by character.
RECURSIVE StrLt(_, _)
StrLt(a, b) ==
    IF b = <<>> THEN FALSE
    ELSE IF a = <<>> THEN TRUE
    ELSE IF Head(a) # Head(b) THEN Head(a) < Head(b)
    ELSE StrLt(Tail(a), Tail(b))

RECURSIVE InsertById(_, _)
InsertById(s, x) ==
    IF s = <<>> THEN <<x>>
    ELSE IF StrLt(x.id, Head(s).id) THEN <<x>> \o s
    ELSE <<Head(s)>> \o InsertById(Tail(s), x)

RECURSIVE SortById(_)
\* Line 892: orders.sort(key=lambda order: order.id).
SortById(s) ==
    IF s = <<>> THEN <<>>
    ELSE InsertById(SortById(SubSeq(s, 1, Len(s) - 1)), s[Len(s)])

RECURSIVE open_orders_map_keys_with_manual_orders(_, _)
\* The keys of open_orders_map when an order with clientId "0" is not passed
\* over.
open_orders_map_keys_with_manual_orders(open_orders_list, seen) ==
    IF open_orders_list = <<>> THEN <<>>
    ELSE IF Head(open_orders_list).clientId \in seen
    THEN open_orders_map_keys_with_manual_orders(Tail(open_orders_list), seen)
    ELSE <<Head(open_orders_list).clientId>> \o
         open_orders_map_keys_with_manual_orders(Tail(open_orders_list),
                              seen \cup {Head(open_orders_list).clientId})

RECURSIVE open_orders_map_keys(_, _)
\* Lines 883-889: the keys of open_orders_map in the order they are inserted;
\* an order with clientId "0" is passed over.
open_orders_map_keys(open_orders_list, seen) ==
    IF open_orders_list = <<>> THEN <<>>
    ELSE IF Head(open_orders_list).clientId = "0" \/ Head(open_orders_list).clientId \in seen
    THEN open_orders_map_keys(Tail(open_orders_list), seen)
    ELSE <<Head(open_orders_list).clientId>> \o
         open_orders_map_keys(Tail(open_orders_list),
                              seen \cup {Head(open_orders_list).clientId})

\* Lines 886-889: the list kept under one key.
open_orders_map_at(open_orders_list, client_id) ==
    SelectSeq(open_orders_list, LAMBDA o : o.clientId = client_id)

\* Line 896: [order.id for order in orders[:-1]].
ids_but_last(orders) == [i \in 1..(Len(orders) - 1) |-> orders[i].id]

RECURSIVE duplicated_of_keys(_, _)
\* Lines 891-897: the loop over the values of open_orders_map.
duplicated_of_keys(open_orders_list, keys) ==
    IF keys = <<>> THEN <<>>
    ELSE ids_but_last(SortById(open_orders_map_at(open_orders_list, Head(keys)))) \o
         duplicated_of_keys(open_orders_list, Tail(keys))

\* _get_duplicated_orders_ids on the open orders it has fetched.
get_duplicated_orders_ids(open_orders_list) ==
    duplicated_of_keys(open_orders_list, open_orders_map_keys(open_orders_list, {}))

\* The waiting time taken modulo the interval: no wait at all on a grid point.
waiting_time_zero_on_grid(number, t) == (number - (t % number)) % number

\* _calculate_waiting_time at clock reading t (milliseconds).
calculate_waiting_time(number, t) == number - (t % number)

\* ------------------------------------------------------------------ state
VARIABLES
    \* the worker's fields (Worker.__init__)
    configuration, can_run, is_busy, refresh_timestamp, initialized, market,
    currently_tracked_orders_ids, tracked_orders_ids, tasks_on_tick,
    open_orders, filled_orders, balances, tickers,
    \* where each coroutine is suspended, and the locals that live across an await
    start_pc, tick_pc, stop_pc, cancel_requested,
    book, candidate_orders, untracked_orders_ids,
    \* the environment: the clock and the venue
    now, venue_open, next_id, venue_data,
    \* history: the gateway requests of the tick in flight and of stop, the
    \* callers of exit, every id a post_orders response has returned, what stop
    \* found when it was called, currently tracked ids when the tick began, how
    \* the tick before ended
    tick_calls, stop_calls, exit_calls, returned_ids, stop_found, tracked_at_start,
    previous_tick,
    \* history: the requests of initialize's hooks and how each was answered
    initialize_calls,
    \* stop has been called from outside the event loop's current coroutine and
    \* has not begun to run
    stop_requested,
    \* the call of a helper that takes no part in the worker's control flow: its
    \* arguments and, once it has returned, its result
    applied

fields == <<configuration, can_run, is_busy, refresh_timestamp, initialized, market,
            currently_tracked_orders_ids, tracked_orders_ids, tasks_on_tick,
            open_orders, filled_orders, balances, tickers>>
control == <<start_pc, tick_pc, stop_pc, cancel_requested,
             book, candidate_orders, untracked_orders_ids>>
environment == <<now, venue_open, next_id, venue_data>>
history == <<tick_calls, stop_calls, exit_calls, returned_ids, stop_found, tracked_at_start,
             previous_tick, applied, initialize_calls, stop_requested>>
vars == <<fields, control, environment, history>>

\* A field that __init__ only annotates (lines 46, 48, 51, 52) does not exist
\* until it is assigned: Unset.  _balances starts as an empty DotMap (line 47):
\* Some(<<>>).
Unset == [set |-> FALSE]
Some(v) == [set |-> TRUE, v |-> v]

\* The cache logic the four getters share (lines 473-489, 586-593, 628-634,
\* 683-689).  With use_cache the field is read: reading a field that does not
\* exist raises AttributeError, and a field that exists is not None, so its
\* value is returned without a gateway call.  Without use_cache the gateway is
\* asked and its answer stored and returned; a gateway error is raised again.
cached_read(cache, use_cache, answer) ==
    IF use_cache /\ ~cache.set
    THEN [raised |-> TRUE, value |-> <<>>, gateway |-> FALSE, cache |-> cache]
    ELSE IF use_cache
    THEN [raised |-> FALSE, value |-> cache.v, gateway |-> FALSE, cache |-> cache]
    ELSE IF answer.ok
    THEN [raised |-> FALSE, value |-> answer.v, gateway |-> TRUE, cache |-> Some(answer.v)]
    ELSE [raised |-> TRUE, value |-> <<>>, gateway |-> TRUE, cache |-> cache]

NoBook == [bids |-> <<>>, asks |-> <<>>]

\* The id of an order the worker did not place (a manual or third-party order).
ForeignIds == {MaxIds + 1}

\* hummingbot.utils.current_timestamp: the clock, in the unit of the waiting time.
current_timestamp == now

\* States in which start is suspended at an await, so that the event loop can
\* run another coroutine.  In "loop" start spins without awaiting (lines 157-162).
StartSuspended == start_pc \in {"get_market", "init_cancel_all", "init_withdraw", "await_tick"}

TickAwaits == {"market_withdraw", "get_open_orders", "get_filled_orders", "get_balances",
               "delete_orders", "get_order_book", "get_ticker", "post_orders"}

Constructed ==
    /\ configuration \in Configurations
    /\ can_run = TRUE
    /\ is_busy = FALSE
    /\ refresh_timestamp = 0
    /\ initialized = FALSE
    /\ market = Unset
    /\ currently_tracked_orders_ids = {}
    /\ tracked_orders_ids = {}
    /\ tasks_on_tick = "None"
    /\ open_orders = Unset
    /\ filled_orders = Unset
    /\ balances = Some(<<>>)
    /\ tickers = Unset
    /\ start_pc = "new"
    /\ tick_pc = "none"
    /\ stop_pc = "idle"
    /\ stop_requested = FALSE
    /\ cancel_requested = FALSE
    /\ book = NoBook
    /\ candidate_orders = <<>>
    /\ untracked_orders_ids = {}
    /\ now = 0
    /\ venue_open = {}
    /\ next_id = 1
    /\ venue_data \in VenueData
    /\ tick_calls = <<>>
    /\ stop_calls = <<>>
    /\ exit_calls = {}
    /\ returned_ids = {}
    /\ stop_found = "not called"
    /\ tracked_at_start = {}
    /\ previous_tick = [outcome |-> "none"]
    /\ initialize_calls = <<>>

Init ==
    /\ Constructed
    /\ applied = [op |-> "none"]

\* ------------------------------------------------------------- initialize
\* start calls initialize, which runs to its first await (lines 155, 115-121).
start_begin ==
    /\ start_pc = "new"
    /\ start_pc' = "get_market"
    /\ initialized' = FALSE
    /\ UNCHANGED <<configuration, can_run, is_busy, refresh_timestamp, market,
                   currently_tracked_orders_ids, tracked_orders_ids, tasks_on_tick,
                   open_orders, filled_orders, balances, tickers>>
    /\ UNCHANGED <<tick_pc, stop_pc, cancel_requested, book, candidate_orders,
                   untracked_orders_ids>>
    /\ UNCHANGED <<environment, history>>

\* Lines 141-146: the end of initialize; start then enters its loop.
initialize_finish ==
    /\ refresh_timestamp' =
          calculate_waiting_time(configuration.tick_interval, now) + current_timestamp
    /\ initialized' = TRUE
    /\ can_run' = TRUE
    /\ start_pc' = "loop"

\* Faulty variant: a cancel-all that has failed ends initialize as an error of
\* the market fetch does, the worker not initialized.
initialize_continue_unless_hook_failed(after_cancel_all) ==
    IF after_cancel_all /\ initialize_calls'[Len(initialize_calls')].status = "failed"
    THEN /\ start_pc' = "loop"
         /\ UNCHANGED <<refresh_timestamp, initialized, can_run>>
    ELSE IF ~after_cancel_all /\ configuration.cancel_all_orders_on_start
    THEN /\ start_pc' = "init_cancel_all"
         /\ UNCHANGED <<refresh_timestamp, initialized, can_run>>
    ELSE IF configuration.withdraw_market_on_start
    THEN /\ start_pc' = "init_withdraw"
         /\ UNCHANGED <<refresh_timestamp, initialized, can_run>>
    ELSE initialize_finish

\* After the market fetch and the hooks that are done: the next hook's request,
\* or the end of initialize.
initialize_continue(after_cancel_all) ==
    IF ~after_cancel_all /\ configuration.cancel_all_orders_on_start
    THEN /\ start_pc' = "init_cancel_all"
         /\ UNCHANGED <<refresh_timestamp, initialized, can_run>>
    ELSE IF configuration.withdraw_market_on_start
    THEN /\ start_pc' = "init_withdraw"
         /\ UNCHANGED <<refresh_timestamp, initialized, can_run>>
    ELSE initialize_finish

\* The answer to get_market (lines 121, 147-150).
initialize_get_market ==
    /\ start_pc = "get_market"
    /\ \/ \E m \in Markets :
            /\ market' = Some(m)
            /\ initialize_continue(FALSE)
            /\ UNCHANGED exit_calls
       \/ /\ start_pc' = "loop"
          /\ exit_calls' = exit_calls \cup {"initialize"}
          /\ UNCHANGED <<market, refresh_timestamp, initialized, can_run>>
    /\ UNCHANGED <<configuration, is_busy, currently_tracked_orders_ids, tracked_orders_ids,
                   tasks_on_tick, open_orders, filled_orders, balances, tickers>>
    /\ UNCHANGED <<tick_pc, stop_pc, cancel_requested, book, candidate_orders,
                   untracked_orders_ids>>
    /\ UNCHANGED <<environment, tick_calls, stop_calls, returned_ids, stop_found,
                   tracked_at_start, previous_tick, applied, initialize_calls, stop_requested>>

\* The answer to the cancel-all of initialize (lines 129-133); a failure is ignored.
initialize_cancel_all ==
    /\ start_pc = "init_cancel_all"
    /\ \/ /\ venue_open' = {}
          /\ initialize_calls' = Append(initialize_calls,
                [op |-> "delete_orders_all", status |-> "ok"])
       \/ /\ UNCHANGED venue_open
          /\ initialize_calls' = Append(initialize_calls,
                [op |-> "delete_orders_all", status |-> "failed"])
    /\ initialize_continue(TRUE)
    /\ UNCHANGED <<configuration, is_busy, market, currently_tracked_orders_ids,
                   tracked_orders_ids, tasks_on_tick, open_orders, filled_orders,
                   balances, tickers>>
    /\ UNCHANGED <<tick_pc, stop_pc, cancel_requested, book, candidate_orders,
                   untracked_orders_ids>>
    /\ UNCHANGED <<now, next_id, venue_data, tick_calls, stop_calls, exit_calls,
                   returned_ids, stop_found, tracked_at_start, previous_tick, applied,
                   stop_requested>>

\* The answer to the market withdraw of initialize (lines 135-139); a failure
\* is ignored.
initialize_withdraw ==
    /\ start_pc = "init_withdraw"
    /\ \E status \in {"ok", "failed"} :
          initialize_calls' = Append(initialize_calls,
                [op |-> "market_withdraw", status |-> status])
    /\ initialize_finish
    /\ UNCHANGED <<configuration, is_busy, market, currently_tracked_orders_ids,
                   tracked_orders_ids, tasks_on_tick, open_orders, filled_orders,
                   balances, tickers>>
    /\ UNCHANGED <<tick_pc, stop_pc, cancel_requested, book, candidate_orders,
                   untracked_orders_ids>>
    /\ UNCHANGED <<environment, tick_calls, stop_calls, exit_calls, returned_ids,
                   stop_found, tracked_at_start, previous_tick, applied,
                   stop_requested>>

\* ------------------------------------------------------------- start loop
\* Lines 157-162: the loop spins, without awaiting, until the refresh time.
start_spin ==
    /\ start_pc = "loop"
    /\ can_run
    /\ is_busy \/ refresh_timestamp > current_timestamp
    /\ now < MaxTime
    /\ now' = now + 1
    /\ UNCHANGED <<fields, control, venue_open, next_id, venue_data, history>>

\* Lines 164-167: the loop creates the on_tick task and awaits it.  The venue's
\* data for this tick is fixed here.
start_launch ==
    /\ start_pc = "loop"
    /\ can_run
    /\ ~(is_busy \/ refresh_timestamp > current_timestamp)
    /\ tasks_on_tick = "None"
    /\ tasks_on_tick' = "Task"
    /\ tick_pc' = "created"
    /\ start_pc' = "await_tick"
    /\ venue_data' \in VenueData
    /\ tick_calls' = <<>>
    /\ tracked_at_start' = currently_tracked_orders_ids
    /\ UNCHANGED <<configuration, can_run, is_busy, refresh_timestamp, initialized, market,
                   currently_tracked_orders_ids, tracked_orders_ids,
                   open_orders, filled_orders, balances, tickers>>
    /\ UNCHANGED <<stop_pc, cancel_requested, book, candidate_orders, untracked_orders_ids>>
    /\ UNCHANGED <<now, venue_open, next_id, stop_calls, exit_calls, returned_ids, stop_found,
                   previous_tick, applied, initialize_calls, stop_requested>>

\* Line 157: the loop ends once can_run is false.
start_return ==
    /\ start_pc = "loop"
    /\ ~can_run
    /\ start_pc' = "returned"
    /\ UNCHANGED <<fields, tick_pc, stop_pc, cancel_requested, book, candidate_orders,
                   untracked_orders_ids, environment, history>>

\* How the tick that has ended went: what it placed, if it placed orders.
LastCall == tick_calls[Len(tick_calls)]
TickOutcome ==
    IF tick_pc = "cancelled" THEN [outcome |-> "cancelled"]
    ELSE IF tick_calls = <<>> THEN [outcome |-> "failed"]
    ELSE IF LastCall.op = "post_orders" /\ LastCall.status = "ok"
    THEN [outcome |-> "placed", data |-> venue_data, orders |-> candidate_orders,
          ids |-> LastCall.ids]
    ELSE IF LastCall.op = "no orders" THEN [outcome |-> "no orders"]
    ELSE IF LastCall.op = "no proposal" THEN [outcome |-> "no proposal"]
    ELSE [outcome |-> "failed"]

\* Faulty variant of start's await: start goes on without the task having ended.
start_resume_without_waiting ==
    /\ start_pc = "await_tick"
    /\ tick_pc # "none"
    /\ tasks_on_tick' = "None"
    /\ start_pc' = "loop"
    /\ UNCHANGED <<configuration, can_run, is_busy, refresh_timestamp, initialized, market,
                   currently_tracked_orders_ids, tracked_orders_ids,
                   open_orders, filled_orders, balances, tickers>>
    /\ UNCHANGED <<tick_pc, stop_pc, cancel_requested, book, candidate_orders,
                   untracked_orders_ids>>
    /\ UNCHANGED <<environment, history>>

\* Lines 167-169: the awaited task has ended.  A cancelled task raises
\* CancelledError in start, which leaves the loop through the finally clause.
start_resume ==
    /\ start_pc = "await_tick"
    /\ tick_pc \in {"done", "cancelled"}
    /\ tasks_on_tick' = "None"
    /\ tick_pc' = "none"
    /\ start_pc' = IF tick_pc = "cancelled" THEN "raised" ELSE "loop"
    /\ tick_calls' = <<>>
    /\ previous_tick' = TickOutcome
    /\ book' = NoBook
    /\ candidate_orders' = <<>>
    /\ untracked_orders_ids' = {}
    /\ UNCHANGED <<configuration, can_run, is_busy, refresh_timestamp, initialized, market,
                   currently_tracked_orders_ids, tracked_orders_ids,
                   open_orders, filled_orders, balances, tickers>>
    /\ UNCHANGED <<stop_pc, cancel_requested>>
    /\ UNCHANGED <<environment, stop_calls, exit_calls, returned_ids, stop_found,
                   tracked_at_start, applied, initialize_calls, stop_requested>>

\* ---------------------------------------------------------------- on_tick
Call(op, ids) == [op |-> op, ids |-> ids, status |-> "pending"]
\* The tick's requests with the pending one answered.
Settled(status) == [tick_calls EXCEPT ![Len(tick_calls)].status = status]

\* Faulty variants of the cancel step's set, used to test the properties below:
\* without the intersection with the tracked ids, without the difference with
\* the currently tracked ids, and one that never cancels.
cancel_every_other_open_order(tracked, currently_tracked, open_orders_ids) ==
    open_orders_ids \ currently_tracked
cancel_every_tracked_open_order(tracked, currently_tracked, open_orders_ids) ==
    tracked \cap open_orders_ids
cancel_no_order(tracked, currently_tracked, open_orders_ids) == {}

\* Lines 758-759: the ids the cancel step asks the venue to delete.
cancel_currently_untracked_orders(tracked, currently_tracked, open_orders_ids) ==
    (tracked \cap open_orders_ids) \ currently_tracked

\* Faulty variant: the response's ids are dropped.
currently_tracked_cleared(response_keys) == {}

\* Line 735: the currently tracked ids after a post_orders response.
currently_tracked_after_post(response_keys) == response_keys

\* Faulty variant: the response's ids are not added.
tracked_not_extended(tracked, response_keys) == tracked

\* Faulty variant: the ids of the placement take the place of the list.
tracked_replaced_by_post(tracked, response_keys) == response_keys

\* Line 736: the tracked ids after a post_orders response.
tracked_after_post(tracked, response_keys) == tracked \cup response_keys

\* Line 732: whether _replace_orders calls the gateway.
replace_orders_posts(orders) == Len(orders) > 0

\* Faulty variant of the finally clause: the busy flag is not cleared.
on_tick_finally_keeps_busy(end) ==
    /\ refresh_timestamp' =
          calculate_waiting_time(configuration.tick_interval, now) + current_timestamp
    /\ UNCHANGED is_busy
    /\ exit_calls' = IF configuration.run_only_once
                     THEN exit_calls \cup {"on_tick"} ELSE exit_calls
    /\ tick_pc' = end

\* Lines 230-241: the finally clause of on_tick.
on_tick_finally(end) ==
    /\ refresh_timestamp' =
          calculate_waiting_time(configuration.tick_interval, now) + current_timestamp
    /\ is_busy' = FALSE
    /\ exit_calls' = IF configuration.run_only_once
                     THEN exit_calls \cup {"on_tick"} ELSE exit_calls
    /\ tick_pc' = end

TickRuns(pc) == tick_pc = pc /\ ~cancel_requested /\ start_pc = "await_tick"

\* The first step of the task (lines 206-217).  With no market (initialize
\* failed) building the first request raises and the tick ends without a
\* gateway call.
on_tick_begin ==
    /\ TickRuns("created")
    /\ IF ~market.set
       THEN /\ on_tick_finally("done")
            /\ UNCHANGED tick_calls
       ELSE /\ is_busy' = TRUE
            /\ tick_pc' = IF configuration.withdraw_market_on_tick
                          THEN "market_withdraw" ELSE "get_open_orders"
            /\ tick_calls' = <<Call(IF configuration.withdraw_market_on_tick
                                    THEN "market_withdraw" ELSE "get_open_orders", {})>>
            /\ UNCHANGED <<refresh_timestamp, exit_calls>>
    /\ UNCHANGED <<configuration, can_run, initialized, market,
                   currently_tracked_orders_ids, tracked_orders_ids, tasks_on_tick,
                   open_orders, filled_orders, balances, tickers>>
    /\ UNCHANGED <<start_pc, stop_pc, cancel_requested, book, candidate_orders,
                   untracked_orders_ids>>
    /\ UNCHANGED <<environment, stop_calls, returned_ids, stop_found, tracked_at_start,
                   previous_tick, applied, initialize_calls, stop_requested>>

\* The answer to the withdraw of the tick (lines 211-215); a failure is ignored.
on_tick_market_withdraw ==
    /\ TickRuns("market_withdraw")
    /\ \E ok \in BOOLEAN :
          tick_calls' = Append(Settled(IF ok THEN "ok" ELSE "failed"),
                               Call("get_open_orders", {}))
    /\ tick_pc' = "get_open_orders"
    /\ UNCHANGED <<fields, start_pc, stop_pc, cancel_requested, book, candidate_orders,
                   untracked_orders_ids, environment, stop_calls, exit_calls,
                   returned_ids, stop_found, tracked_at_start,
                   previous_tick, applied, initialize_calls, stop_requested>>

\* Faulty variant: a failed delete_orders is ignored and the tick goes on to
\* the order book.
on_tick_call_fails_then_goes_on ==
    /\ tick_pc \in TickAwaits \ {"market_withdraw"}
    /\ TickRuns(tick_pc)
    /\ IF tick_pc = "delete_orders"
       THEN /\ tick_calls' = Append(Settled("failed"), Call("get_order_book", {}))
            /\ tick_pc' = "get_order_book"
            /\ UNCHANGED <<refresh_timestamp, is_busy, exit_calls>>
       ELSE /\ tick_calls' = Settled("failed")
            /\ on_tick_finally("done")
    /\ UNCHANGED <<configuration, can_run, initialized, market,
                   currently_tracked_orders_ids, tracked_orders_ids, tasks_on_tick,
                   open_orders, filled_orders, balances, tickers>>
    /\ UNCHANGED <<start_pc, stop_pc, cancel_requested, book, candidate_orders,
                   untracked_orders_ids>>
    /\ UNCHANGED <<environment, stop_calls, returned_ids, stop_found, tracked_at_start,
                   previous_tick, applied, initialize_calls, stop_requested>>

\* A gateway call of the tick raises: lines 228-241.
on_tick_call_fails ==
    /\ tick_pc \in TickAwaits \ {"market_withdraw"}
    /\ TickRuns(tick_pc)
    /\ tick_calls' = Settled("failed")
    /\ on_tick_finally("done")
    /\ UNCHANGED <<configuration, can_run, initialized, market,
                   currently_tracked_orders_ids, tracked_orders_ids, tasks_on_tick,
                   open_orders, filled_orders, balances, tickers>>
    /\ UNCHANGED <<start_pc, stop_pc, cancel_requested, book, candidate_orders,
                   untracked_orders_ids>>
    /\ UNCHANGED <<environment, stop_calls, returned_ids, stop_found, tracked_at_start,
                   previous_tick, applied, initialize_calls, stop_requested>>

\* Faulty variant: the balances are asked for before the filled orders.
on_tick_get_open_orders_then_balances ==
    /\ TickRuns("get_open_orders")
    /\ open_orders' = Some(venue_open)
    /\ tick_pc' = "get_balances"
    /\ tick_calls' = Append(Settled("ok"), Call("get_balances", {}))
    /\ UNCHANGED <<configuration, can_run, is_busy, refresh_timestamp, initialized, market,
                   currently_tracked_orders_ids, tracked_orders_ids, tasks_on_tick,
                   filled_orders, balances, tickers>>
    /\ UNCHANGED <<start_pc, stop_pc, cancel_requested, book, candidate_orders,
                   untracked_orders_ids>>
    /\ UNCHANGED <<environment, stop_calls, exit_calls, returned_ids, stop_found,
                   tracked_at_start, previous_tick, applied, initialize_calls, stop_requested>>

\* Line 217: the open orders of the wallet on the market.
on_tick_get_open_orders ==
    /\ TickRuns("get_open_orders")
    /\ open_orders' = Some(venue_open)
    /\ tick_pc' = "get_filled_orders"
    /\ tick_calls' = Append(Settled("ok"), Call("get_filled_orders", {}))
    /\ UNCHANGED <<configuration, can_run, is_busy, refresh_timestamp, initialized, market,
                   currently_tracked_orders_ids, tracked_orders_ids, tasks_on_tick,
                   filled_orders, balances, tickers>>
    /\ UNCHANGED <<start_pc, stop_pc, cancel_requested, book, candidate_orders,
                   untracked_orders_ids>>
    /\ UNCHANGED <<environment, stop_calls, exit_calls, returned_ids, stop_found,
                   tracked_at_start, previous_tick, applied, initialize_calls, stop_requested>>

\* Line 218.
on_tick_get_filled_orders ==
    /\ TickRuns("get_filled_orders")
    /\ filled_orders' = Some(venue_data.filled)
    /\ tick_pc' = "get_balances"
    /\ tick_calls' = Append(Settled("ok"), Call("get_balances", {}))
    /\ UNCHANGED <<configuration, can_run, is_busy, refresh_timestamp, initialized, market,
                   currently_tracked_orders_ids, tracked_orders_ids, tasks_on_tick,
                   open_orders, balances, tickers>>
    /\ UNCHANGED <<start_pc, stop_pc, cancel_requested, book, candidate_orders,
                   untracked_orders_ids>>
    /\ UNCHANGED <<environment, stop_calls, exit_calls, returned_ids, stop_found,
                   tracked_at_start, previous_tick, applied, initialize_calls, stop_requested>>

\* Lines 219-222 and 758-779: the balances arrive, then the cancel step runs up
\* to its delete_orders request, or, with nothing to cancel, _create_proposal
\* runs up to its order book request (line 247).
on_tick_get_balances ==
    /\ TickRuns("get_balances")
    /\ balances' = Some(venue_data.balances)
    /\ LET ids == cancel_currently_untracked_orders(tracked_orders_ids,
                     currently_tracked_orders_ids, open_orders.v)
       IN  IF Cardinality(ids) > 0
           THEN /\ untracked_orders_ids' = ids
                /\ tick_pc' = "delete_orders"
                /\ tick_calls' = Append(Settled("ok"), Call("delete_orders", ids))
           ELSE /\ untracked_orders_ids' = {}
                /\ tick_pc' = "get_order_book"
                /\ tick_calls' = Append(Settled("ok"), Call("get_order_book", {}))
    /\ UNCHANGED <<configuration, can_run, is_busy, refresh_timestamp, initialized, market,
                   currently_tracked_orders_ids, tracked_orders_ids, tasks_on_tick,
                   open_orders, filled_orders, tickers>>
    /\ UNCHANGED <<start_pc, stop_pc, cancel_requested, book, candidate_orders>>
    /\ UNCHANGED <<environment, stop_calls, exit_calls, returned_ids, stop_found,
                   tracked_at_start, previous_tick, applied, initialize_calls, stop_requested>>

\* Line 776: the venue answers with the orders it has deleted.  The worker does
\* not read the answer, so an order it asked for may stay open.
on_tick_delete_orders ==
    /\ TickRuns("delete_orders")
    /\ \E deleted \in SUBSET untracked_orders_ids : venue_open' = venue_open \ deleted
    /\ tick_pc' = "get_order_book"
    /\ tick_calls' = Append(Settled("ok"), Call("get_order_book", {}))
    /\ UNCHANGED <<fields, start_pc, stop_pc, cancel_requested, book, candidate_orders,
                   untracked_orders_ids, now, next_id, venue_data, stop_calls,
                   exit_calls, returned_ids, stop_found, tracked_at_start,
                   previous_tick, applied, initialize_calls, stop_requested>>

\* Lines 247-250: the book arrives and is parsed; the ticker is asked for.
on_tick_get_order_book ==
    /\ TickRuns("get_order_book")
    /\ book' = parse_order_book(venue_data.book)
    /\ tick_pc' = "get_ticker"
    /\ tick_calls' = Append(Settled("ok"), Call("get_ticker", {}))
    /\ UNCHANGED <<fields, start_pc, stop_pc, cancel_requested, candidate_orders,
                   untracked_orders_ids, environment, stop_calls, exit_calls,
                   returned_ids, stop_found, tracked_at_start,
                   previous_tick, applied, initialize_calls, stop_requested>>

\* Lines 250-355, 225 and 703-741: the ticker arrives; the proposal is built
\* and cut to the budget; a non-empty result is sent to post_orders, an empty
\* one ends the tick, and so does a proposal that cannot be built.
on_tick_get_ticker ==
    /\ TickRuns("get_ticker")
    /\ tickers' = Some(venue_data.ticker)
    /\ \E proposal \in {create_proposal(book, venue_data.ticker, filled_orders.v,
                                        configuration, market.v)} :
       \E candidates \in {IF proposal.ok
                          THEN adjust_proposal_to_budget(proposal.orders, balances.v)
                          ELSE <<>>} :
           IF proposal.ok /\ replace_orders_posts(candidates)
           THEN /\ candidate_orders' = candidates
                /\ tick_pc' = "post_orders"
                /\ tick_calls' = Append(Settled("ok"), Call("post_orders", {}))
                /\ UNCHANGED <<refresh_timestamp, is_busy, exit_calls>>
           ELSE /\ candidate_orders' = <<>>
                /\ tick_calls' = Append(Settled("ok"),
                      [op |-> IF proposal.ok THEN "no orders" ELSE "no proposal",
                       ids |-> {}, status |-> "none"])
                /\ on_tick_finally("done")
    /\ UNCHANGED <<configuration, can_run, initialized, market,
                   currently_tracked_orders_ids, tracked_orders_ids, tasks_on_tick,
                   open_orders, filled_orders, balances>>
    /\ UNCHANGED <<start_pc, stop_pc, cancel_requested, book, untracked_orders_ids>>
    /\ UNCHANGED <<environment, stop_calls, returned_ids, stop_found, tracked_at_start,
                   previous_tick, applied, initialize_calls, stop_requested>>

\* Lines 733-736: the venue has placed the orders and answers with their ids.
on_tick_post_orders ==
    /\ TickRuns("post_orders")
    /\ next_id + Len(candidate_orders) - 1 <= MaxIds
    /\ LET response_keys == next_id .. (next_id + Len(candidate_orders) - 1)
       IN  /\ currently_tracked_orders_ids' = currently_tracked_after_post(response_keys)
           /\ tracked_orders_ids' = tracked_after_post(tracked_orders_ids, response_keys)
           /\ venue_open' = venue_open \cup response_keys
           /\ next_id' = next_id + Len(candidate_orders)
           /\ returned_ids' = returned_ids \cup response_keys
           /\ tick_calls' = [Settled("ok") EXCEPT ![Len(tick_calls)].ids = response_keys]
    /\ on_tick_finally("done")
    /\ UNCHANGED <<configuration, can_run, initialized, market, tasks_on_tick,
                   open_orders, filled_orders, balances, tickers>>
    /\ UNCHANGED <<start_pc, stop_pc, cancel_requested, book, candidate_orders,
                   untracked_orders_ids>>
    /\ UNCHANGED <<now, venue_data, stop_calls, stop_found, tracked_at_start,
                   previous_tick, applied, initialize_calls, stop_requested>>

\* The task is cancelled (stop, line 178): CancelledError is raised at the
\* await the task is suspended in; it is no Exception, so only the finally
\* clause runs.  A task cancelled before its first step never runs its body.
on_tick_cancelled ==
    /\ cancel_requested
    /\ tick_pc \in TickAwaits \cup {"created"}
    /\ cancel_requested' = FALSE
    /\ IF tick_pc = "created"
       THEN /\ tick_pc' = "cancelled"
            /\ UNCHANGED <<refresh_timestamp, is_busy, exit_calls, tick_calls>>
       ELSE /\ on_tick_finally("cancelled")
            /\ tick_calls' = Settled("cancelled")
    /\ UNCHANGED <<configuration, can_run, initialized, market,
                   currently_tracked_orders_ids, tracked_orders_ids, tasks_on_tick,
                   open_orders, filled_orders, balances, tickers>>
    /\ UNCHANGED <<start_pc, stop_pc, book, candidate_orders, untracked_orders_ids>>
    /\ UNCHANGED <<environment, stop_calls, returned_ids, stop_found, tracked_at_start,
                   previous_tick, applied, initialize_calls, stop_requested>>

\* ------------------------------------------------------------------- stop
\* Lines 185-197 from the hook that comes next: a hook's request, or exit.
\* Without a market the request of a hook cannot be built; that is ignored.
stop_continue(after_cancel_all) ==
    IF ~after_cancel_all /\ configuration.cancel_all_orders_on_stop /\ market.set
    THEN /\ stop_pc' = "cancel_all"
         /\ stop_calls' = Append(stop_calls, "delete_orders_all")
         /\ UNCHANGED exit_calls
    ELSE IF configuration.withdraw_market_on_stop /\ market.set
    THEN /\ stop_pc' = "withdraw"
         /\ stop_calls' = Append(stop_calls, "market_withdraw")
         /\ UNCHANGED exit_calls
    ELSE /\ stop_pc' = "returned"
         /\ exit_calls' = exit_calls \cup {"stop"}
         /\ UNCHANGED stop_calls

\* stop is called (line 171) while start's loop waits for the refresh time
\* (lines 161-162): start holds the event loop, and the body of stop cannot
\* begin before start next awaits.
stop_request ==
    /\ start_pc = "loop"
    /\ can_run
    /\ is_busy \/ refresh_timestamp > current_timestamp
    /\ stop_pc = "idle"
    /\ ~stop_requested
    /\ stop_requested' = TRUE
    /\ UNCHANGED <<fields, control, environment, tick_calls, stop_calls, exit_calls,
                   returned_ids, stop_found, tracked_at_start, previous_tick, applied,
                   initialize_calls>>

\* stop is called while start is suspended (lines 175-183).  With no task,
\* None.cancel() raises AttributeError, which is ignored.  A finished task is
\* awaited at once.  A task in flight is cancelled and awaited.
stop_begin ==
    /\ stop_pc = "idle"
    /\ StartSuspended
    /\ can_run' = FALSE
    /\ stop_requested' = FALSE
    /\ IF tasks_on_tick = "None"
       THEN /\ stop_found' = "no task"
            /\ stop_continue(FALSE)
            /\ UNCHANGED <<tasks_on_tick, cancel_requested>>
       ELSE IF tick_pc = "done"
       THEN /\ stop_found' = "finished task"
            /\ tasks_on_tick' = "None"
            /\ stop_continue(FALSE)
            /\ UNCHANGED cancel_requested
       ELSE /\ stop_found' = "tick in flight"
            /\ cancel_requested' = TRUE
            /\ stop_pc' = "await_tick"
            /\ UNCHANGED <<tasks_on_tick, stop_calls, exit_calls>>
    /\ UNCHANGED <<configuration, is_busy, refresh_timestamp, initialized, market,
                   currently_tracked_orders_ids, tracked_orders_ids,
                   open_orders, filled_orders, balances, tickers>>
    /\ UNCHANGED <<start_pc, tick_pc, book, candidate_orders, untracked_orders_ids>>
    /\ UNCHANGED <<environment, tick_calls, returned_ids, tracked_at_start,
                   previous_tick, applied, initialize_calls>>

\* Lines 179-197: the cancelled task has ended, so the await raises
\* CancelledError in stop; it is no Exception, the hooks are passed over and
\* only the finally clauses run.
stop_resume ==
    /\ stop_pc = "await_tick"
    /\ ~cancel_requested
    /\ tasks_on_tick' = "None"
    /\ stop_pc' = "raised"
    /\ exit_calls' = exit_calls \cup {"stop"}
    /\ UNCHANGED <<configuration, can_run, is_busy, refresh_timestamp, initialized, market,
                   currently_tracked_orders_ids, tracked_orders_ids,
                   open_orders, filled_orders, balances, tickers>>
    /\ UNCHANGED <<start_pc, tick_pc, cancel_requested, book, candidate_orders,
                   untracked_orders_ids>>
    /\ UNCHANGED <<environment, tick_calls, stop_calls, returned_ids, stop_found,
                   tracked_at_start, previous_tick, applied, initialize_calls, stop_requested>>

\* The answer to the cancel-all of stop (lines 185-189); a failure is ignored.
stop_cancel_all ==
    /\ stop_pc = "cancel_all"
    /\ start_pc # "loop"
    /\ \/ venue_open' = {}
       \/ UNCHANGED venue_open
    /\ stop_continue(TRUE)
    /\ UNCHANGED <<fields, start_pc, tick_pc, cancel_requested, book, candidate_orders,
                   untracked_orders_ids, now, next_id, venue_data, tick_calls,
                   returned_ids, stop_found, tracked_at_start,
                   previous_tick, applied, initialize_calls, stop_requested>>

\* The answer to the market withdraw of stop (lines 191-197).
stop_withdraw ==
    /\ stop_pc = "withdraw"
    /\ start_pc # "loop"
    /\ stop_pc' = "returned"
    /\ exit_calls' = exit_calls \cup {"stop"}
    /\ UNCHANGED <<fields, start_pc, tick_pc, cancel_requested, book, candidate_orders,
                   untracked_orders_ids, environment, tick_calls, stop_calls,
                   returned_ids, stop_found, tracked_at_start,
                   previous_tick, applied, initialize_calls, stop_requested>>

\* ------------------------------------------------------------ environment
\* A gateway request is waiting for its answer.
GatewayPending ==
    \/ start_pc \in {"get_market", "init_cancel_all", "init_withdraw"}
    \/ tick_pc \in TickAwaits
    \/ stop_pc \in {"cancel_all", "withdraw"}

\* Time passes while a request is pending.
elapse ==
    /\ GatewayPending
    /\ start_pc # "loop"
    /\ now < MaxTime
    /\ now' = now + 1
    /\ UNCHANGED <<fields, control, venue_open, next_id, venue_data, history>>

\* An open order is filled, or cancelled by its owner by hand.
venue_close_order ==
    /\ GatewayPending
    /\ \E id \in venue_open : venue_open' = venue_open \ {id}
    /\ UNCHANGED <<fields, control, now, next_id, venue_data, history>>

\* An order that the worker did not place appears on the venue.
venue_foreign_order ==
    /\ GatewayPending
    /\ \E id \in ForeignIds \ venue_open : venue_open' = venue_open \cup {id}
    /\ UNCHANGED <<fields, control, now, next_id, venue_data, history>>

\* ---------------------------------------------------------- specification
Next ==
    \/ start_begin
    \/ initialize_get_market
    \/ initialize_cancel_all
    \/ initialize_withdraw
    \/ start_spin
    \/ start_launch
    \/ start_return
    \/ start_resume
    \/ on_tick_begin
    \/ on_tick_market_withdraw
    \/ on_tick_call_fails
    \/ on_tick_get_open_orders
    \/ on_tick_get_filled_orders
    \/ on_tick_get_balances
    \/ on_tick_delete_orders
    \/ on_tick_get_order_book
    \/ on_tick_get_ticker
    \/ on_tick_post_orders
    \/ on_tick_cancelled
    \/ stop_request
    \/ stop_begin
    \/ stop_resume
    \/ stop_cancel_all
    \/ stop_withdraw
    \/ elapse
    \/ venue_close_order
    \/ venue_foreign_order

Spec == Init /\ [][Next]_vars

\* ------------------------------------------------ helpers applied on their own
\* The helpers that read no field of the worker but their arguments, the
\* configuration and the market are applied to arguments drawn from the sets
\* below: `applied` holds the arguments of one call and, once the call has
\* returned, its result.
worker == <<fields, control, environment, tick_calls, stop_calls, exit_calls,
            returned_ids, stop_found, tracked_at_start, previous_tick, initialize_calls, stop_requested>>

\* Raw order books: unsorted sides, a side that is empty, a ticker above the
\* best ask and below the best bid.
ProposalBooks ==
    { [bids |-> <<Level(10, 1)>>, asks |-> <<Level(12, 1)>>],
      [bids |-> <<Level(9, 2), Level(10, 1)>>, asks |-> <<Level(13, 1), Level(12, 2)>>],
      [bids |-> <<Level(8, 1)>>, asks |-> <<Level(10, 1)>>],
      [bids |-> <<Level(12, 1)>>, asks |-> <<Level(13, 1)>>],
      [bids |-> <<Level(10, 1)>>, asks |-> <<>>],
      [bids |-> <<>>, asks |-> <<Level(12, 1)>>],
      [bids |-> <<>>, asks |-> <<>>] }
ProposalTickers == {Dec(11), Dec(0)}
ProposalFills == {<<>>, <<Dec(11)>>}
ProposalMarkets ==
    { [minimumPriceIncrement |-> Dec(1), minimumOrderSize |-> Dec(1)],
      [minimumPriceIncrement |-> Dec(6), minimumOrderSize |-> Dec(12)] }
\* Layers: one order a side; two bids and no ask; sizes under the minimum order
\* size; a bid price under the minimum price increment; a bid price of 0.
ProposalLayers ==
    { [bid |-> Side(1, 10, 100), ask |-> Side(1, 10, 100)],
      [bid |-> Side(2, 50, 100), ask |-> Side(0, 10, 100)],
      [bid |-> Side(1, 20, 5),   ask |-> Side(2, 20, 5)],
      [bid |-> Side(1, 95, 100), ask |-> Side(1, 0, 100)],
      [bid |-> Side(1, 100, 100), ask |-> Side(1, 10, 100)] }
ProposalLayerLists == UNION {[1..n -> ProposalLayers] : n \in 0..MaxLayers}
ProposalCalls ==
    { [op |-> "create_proposal", book |-> b, ticker |-> t, filled |-> f,
       cfg |-> [price_strategy |-> ps, middle_price_strategy |-> "SAP", layers |-> ls],
       mkt |-> m, done |-> FALSE, result |-> <<>>] :
      b \in ProposalBooks, t \in ProposalTickers, f \in ProposalFills,
      ps \in {"TICKER", "MIDDLE"}, ls \in ProposalLayerLists, m \in ProposalMarkets }

\* Books for the middle price: amounts that differ between the best bid and the
\* best ask, and sides of four levels, of which VWAP keeps two, one of them
\* with a bid that VWAP discards as an outlier.
MiddleBooks ==
    { [bids |-> <<Level(10, 1)>>, asks |-> <<Level(12, 3)>>],
      [bids |-> <<Level(10, 1), Level(9, 1), Level(8, 1), Level(4, 1)>>,
       asks |-> <<Level(12, 1), Level(13, 2), Level(14, 1), Level(15, 1)>>],
      [bids |-> <<Level(10, 1), Level(2, 5), Level(1, 1), Level(1, 1)>>,
       asks |-> <<Level(12, 3), Level(13, 1), Level(14, 1), Level(15, 1)>>],
      [bids |-> <<>>, asks |-> <<>>] }
\* Calls of the builder with price strategy MIDDLE and each way of configuring
\* middle_price_strategy: none, the three strategies, an unknown name.
MiddleCalls ==
    { [op |-> "create_proposal", book |-> b, ticker |-> Dec(11), filled |-> <<>>,
       cfg |-> [price_strategy |-> "MIDDLE", middle_price_strategy |-> mps,
                layers |-> << [bid |-> Side(1, 10, 100), ask |-> Side(1, 10, 100)] >>],
       mkt |-> [minimumPriceIncrement |-> Dec(1), minimumOrderSize |-> Dec(1)],
       done |-> FALSE, result |-> <<>>] :
      b \in MiddleBooks, mps \in {"unset", "SAP", "WAP", "VWAP", "OTHER"} }

\* Proposals for the budget adjuster: every sequence of at most MaxOrders orders
\* of either side with an amount of 3 or 5, numbered in order.
BudgetKinds == {"BUY", "SELL"} \X {3, 5}
BudgetOrder(i, kind) ==
    [client_id |-> str(i), side |-> kind[1], price |-> Dec(1), amount |-> Dec(kind[2])]
BudgetProposals ==
    { [i \in DOMAIN ks |-> BudgetOrder(i, ks[i])] :
      ks \in UNION {[1..n -> BudgetKinds] : n \in 0..MaxOrders} }
BudgetCalls ==
    { [op |-> "adjust_proposal_to_budget", proposal |-> p,
       balances |-> [base |-> Dec(fb), quote |-> Dec(fq)],
       done |-> FALSE, result |-> <<>>] :
      p \in BudgetProposals, fb \in 0..MaxBalance, fq \in 0..MaxBalance }

WaitingCalls ==
    { [op |-> "calculate_waiting_time", number |-> n, t |-> t,
       done |-> FALSE, result |-> 0] :
      n \in (1..MaxInterval) \cup {1000}, t \in (0..MaxClock) \cup {345, 12345, 3000} }

\* Open orders for the duplicate scan: at most MaxOpen orders with different
\* venue ids ("9", "10", "11", "2"), each with one of three client ids.
VenueIds == {<<9>>, <<1, 0>>, <<1, 1>>, <<2>>}
ClientIds == {"0", "1", "2"}
OpenOrderLists ==
    { [i \in DOMAIN os |-> [id |-> os[i][1], clientId |-> os[i][2]]] :
      os \in { f \in UNION {[1..n -> VenueIds \X ClientIds] : n \in 0..MaxOpen} :
               \A i, j \in DOMAIN f : i # j => f[i][1] # f[j][1] } }
DuplicateCalls ==
    { [op |-> "get_duplicated_orders_ids", open_orders |-> os,
       done |-> FALSE, result |-> <<>>] : os \in OpenOrderLists }

\* Calls of the cached getters: with and without use_cache, the gateway
\* answering with one of two values or with an error.
GetterNames == {"get_balances", "get_ticker", "get_open_orders", "get_filled_orders"}
GetterAnswers ==
    { [ok |-> TRUE, v |-> <<1>>], [ok |-> TRUE, v |-> <<2>>], [ok |-> FALSE, v |-> <<>>] }
GetterCalls ==
    { [op |-> g, use_cache |-> u, answer |-> a, fetched |-> {},
       done |-> FALSE, result |-> <<>>] :
      g \in GetterNames, u \in BOOLEAN, a \in GetterAnswers }

PureInit ==
    /\ Constructed
    /\ applied \in ProposalCalls \cup MiddleCalls \cup BudgetCalls \cup WaitingCalls
                   \cup DuplicateCalls \cup GetterCalls

Called(op) == applied.op = op /\ ~applied.done
Returned(op) == applied.op = op /\ applied.done

\* Lines 247-351: _create_proposal parses the book it has fetched and builds
\* the proposal; result.ok is FALSE when it raises.
apply_create_proposal ==
    /\ Called("create_proposal")
    /\ applied' = [applied EXCEPT
          !.done = TRUE,
          !.result = create_proposal(parse_order_book(applied.book), applied.ticker,
                                     applied.filled, applied.cfg, applied.mkt)]
    /\ UNCHANGED worker

apply_adjust_proposal_to_budget ==
    /\ Called("adjust_proposal_to_budget")
    /\ applied' = [applied EXCEPT
          !.done = TRUE,
          !.result = adjust_proposal_to_budget(applied.proposal, applied.balances)]
    /\ UNCHANGED worker

apply_calculate_waiting_time ==
    /\ Called("calculate_waiting_time")
    /\ applied' = [applied EXCEPT
          !.done = TRUE,
          !.result = calculate_waiting_time(applied.number, applied.t)]
    /\ UNCHANGED worker

apply_get_duplicated_orders_ids ==
    /\ Called("get_duplicated_orders_ids")
    /\ applied' = [applied EXCEPT
          !.done = TRUE,
          !.result = get_duplicated_orders_ids(applied.open_orders)]
    /\ UNCHANGED worker

\* _get_balances (lines 457-497) on the worker's field.
apply_get_balances ==
    /\ Called("get_balances")
    /\ \E r \in {cached_read(balances, applied.use_cache, applied.answer)} :
          /\ balances' = r.cache
          /\ applied' = [applied EXCEPT !.done = TRUE, !.result = r]
    /\ UNCHANGED <<configuration, can_run, is_busy, refresh_timestamp, initialized, market,
                   currently_tracked_orders_ids, tracked_orders_ids, tasks_on_tick,
                   open_orders, filled_orders, tickers>>
    /\ UNCHANGED <<control, environment, tick_calls, stop_calls, exit_calls, returned_ids,
                   stop_found, tracked_at_start, previous_tick, initialize_calls, stop_requested>>

\* _get_ticker (lines 567-605).
apply_get_ticker ==
    /\ Called("get_ticker")
    /\ \E r \in {cached_read(tickers, applied.use_cache, applied.answer)} :
          /\ tickers' = r.cache
          /\ applied' = [applied EXCEPT !.done = TRUE, !.result = r]
    /\ UNCHANGED <<configuration, can_run, is_busy, refresh_timestamp, initialized, market,
                   currently_tracked_orders_ids, tracked_orders_ids, tasks_on_tick,
                   open_orders, filled_orders, balances>>
    /\ UNCHANGED <<control, environment, tick_calls, stop_calls, exit_calls, returned_ids,
                   stop_found, tracked_at_start, previous_tick, initialize_calls, stop_requested>>

\* _get_open_orders (lines 607-645).
apply_get_open_orders ==
    /\ Called("get_open_orders")
    /\ \E r \in {cached_read(open_orders, applied.use_cache, applied.answer)} :
          /\ open_orders' = r.cache
          /\ applied' = [applied EXCEPT !.done = TRUE, !.result = r]
    /\ UNCHANGED <<configuration, can_run, is_busy, refresh_timestamp, initialized, market,
                   currently_tracked_orders_ids, tracked_orders_ids, tasks_on_tick,
                   filled_orders, balances, tickers>>
    /\ UNCHANGED <<control, environment, tick_calls, stop_calls, exit_calls, returned_ids,
                   stop_found, tracked_at_start, previous_tick, initialize_calls, stop_requested>>

\* _get_filled_orders (lines 662-701).
apply_get_filled_orders ==
    /\ Called("get_filled_orders")
    /\ \E r \in {cached_read(filled_orders, applied.use_cache, applied.answer)} :
          /\ filled_orders' = r.cache
          /\ applied' = [applied EXCEPT !.done = TRUE, !.result = r]
    /\ UNCHANGED <<configuration, can_run, is_busy, refresh_timestamp, initialized, market,
                   currently_tracked_orders_ids, tracked_orders_ids, tasks_on_tick,
                   open_orders, balances, tickers>>
    /\ UNCHANGED <<control, environment, tick_calls, stop_calls, exit_calls, returned_ids,
                   stop_found, tracked_at_start, previous_tick, initialize_calls, stop_requested>>

\* A getter has returned or raised and a getter is called again; the getters
\* whose fetch has succeeded so far are kept in `fetched`.
getter_called ==
    /\ applied.op \in GetterNames
    /\ applied.done
    /\ \E call \in GetterCalls :
          applied' = [call EXCEPT
             !.fetched = applied.fetched \cup
                         (IF applied.result.gateway /\ ~applied.result.raised
                          THEN {applied.op} ELSE {})]
    /\ UNCHANGED worker

PureNext ==
    \/ apply_create_proposal
    \/ apply_adjust_proposal_to_budget
    \/ apply_calculate_waiting_time
    \/ apply_get_duplicated_orders_ids
    \/ apply_get_balances
    \/ apply_get_ticker
    \/ apply_get_open_orders
    \/ apply_get_filled_orders
    \/ getter_called

PureSpec == PureInit /\ [][PureNext]_vars

\* ------------------------------------------------------------- properties
DeleteCalls == {i \in DOMAIN tick_calls : tick_calls[i].op = "delete_orders"}
PostCalls == {i \in DOMAIN tick_calls : tick_calls[i].op = "post_orders"}

\* C1: every id in a delete_orders request of a tick's cancel step was returned
\* by an earlier post_orders response and is tracked; an open order that was
\* never tracked is in no such request.
C1_CancelRequestsOnlyReturnedIds ==
    \A i \in DeleteCalls :
        /\ tick_calls[i].ids \subseteq returned_ids
        /\ tick_calls[i].ids \subseteq tracked_orders_ids
        /\ tick_calls[i].ids \cap (open_orders.v \ tracked_orders_ids) = {}

\* A tick has sent a delete_orders request while an order that the worker never
\* tracked was among the open orders it had fetched.
C1_Witness ==
    /\ DeleteCalls # {}
    /\ open_orders.v \ tracked_orders_ids # {}

\* After the cancel step of a tick, until its placement is answered, the
\* worker's tracking sets and the fetched open orders are those the step read.
AfterCancelStepPcs == {"delete_orders", "get_order_book", "get_ticker", "post_orders"}
AfterCancelStep == tick_pc \in AfterCancelStepPcs

\* C2: the cancel step sends exactly one delete_orders request, with the ids
\* (tracked /\ open) - currently tracked, when that set is not empty, and no
\* request when it is empty.
C2_CancelRequestIsTheStaleOpenIds ==
    AfterCancelStep =>
        IF (tracked_orders_ids \cap open_orders.v) \ currently_tracked_orders_ids = {}
        THEN DeleteCalls = {}
        ELSE /\ Cardinality(DeleteCalls) = 1
             /\ \A i \in DeleteCalls :
                   tick_calls[i].ids =
                      (tracked_orders_ids \cap open_orders.v) \ currently_tracked_orders_ids

\* Scenario S5: three tracked ids {A, B, C}, B currently tracked, A, B and a
\* foreign order D open; the request pending at the venue carries A only.
C2_Witness ==
    /\ tick_pc = "delete_orders"
    /\ Cardinality(tracked_orders_ids) = 3
    /\ Cardinality(currently_tracked_orders_ids) = 1
    /\ Cardinality(open_orders.v) = 3
    /\ currently_tracked_orders_ids \subseteq open_orders.v
    /\ Cardinality(open_orders.v \ tracked_orders_ids) = 1
    /\ Cardinality(LastCall.ids) = 1
    /\ LastCall.ids \subseteq tracked_orders_ids \ currently_tracked_orders_ids

\* C3: the currently tracked ids are always among the tracked ids, and after a
\* successful placement they are the keys of the post_orders response.
C3_CurrentlyTrackedWithinTracked ==
    /\ currently_tracked_orders_ids \subseteq tracked_orders_ids
    /\ (tick_calls # <<>> /\ LastCall.op = "post_orders" /\ LastCall.status = "ok") =>
          /\ currently_tracked_orders_ids = LastCall.ids
          /\ LastCall.ids \subseteq tracked_orders_ids
          /\ LastCall.ids # {}

\* A placement has just succeeded and older ids are tracked as well.
C3_Witness ==
    /\ tick_calls # <<>>
    /\ LastCall.op = "post_orders"
    /\ LastCall.status = "ok"
    /\ currently_tracked_orders_ids # tracked_orders_ids

\* C4: a tick whose budget-adjusted proposal is empty sends no post_orders
\* request and leaves both tracking sets as they are; in the tick after it, the
\* cancel step still asks for every tracked open order that is not currently
\* tracked.
C4_EmptyProposalKeepsTracking ==
    [][ /\ (tick_pc = "get_ticker" /\ tick_calls' # <<>> /\ LastCall'.op = "no orders") =>
              /\ PostCalls' = {}
              /\ next_id' = next_id
              /\ currently_tracked_orders_ids' = currently_tracked_orders_ids
              /\ tracked_orders_ids' = tracked_orders_ids
        /\ (/\ previous_tick.outcome = "no orders"
            /\ tick_pc = "get_balances"
            /\ tick_pc' \in AfterCancelStepPcs
            /\ (tracked_orders_ids \cap open_orders.v) \ currently_tracked_orders_ids # {}) =>
              /\ tick_pc' = "delete_orders"
              /\ (tracked_orders_ids \cap open_orders.v) \ currently_tracked_orders_ids
                    \subseteq LastCall'.ids
      ]_vars

\* The tick after a tick with an empty proposal is cancelling stale orders,
\* while orders are currently tracked.
C4_Witness ==
    /\ previous_tick.outcome = "no orders"
    /\ tick_pc = "delete_orders"
    /\ currently_tracked_orders_ids # {}

\* A tick has ended with every one of its requests answered and its orders placed.
AllCallsOk == \A i \in DOMAIN tick_calls : tick_calls[i].status = "ok"
PlacedAndDone ==
    /\ tick_pc = "done"
    /\ tick_calls # <<>>
    /\ LastCall.op = "post_orders"
    /\ AllCallsOk
OwnOpenOrders == venue_open \cap returned_ids

\* C5 as the specification states it: after a tick in which every step succeeds
\* and a proposal is placed, the worker's own orders open on the venue are all
\* in currently_tracked_orders_ids (every earlier order has been cancelled).
C5_OwnOpenOrdersAreCurrentlyTracked ==
    PlacedAndDone => OwnOpenOrders \subseteq currently_tracked_orders_ids

\* C5, amended: after such a tick the worker's own open orders are among the
\* ids just placed, the ids of the placement before (currently tracked when the
\* tick began, which the cancel step keeps out of its request) and the ids of
\* this tick's delete request that the venue has not removed; the earlier
\* placement is not cancelled by this tick.
C5_OwnOpenOrdersWithinTwoPlacements ==
    PlacedAndDone =>
        /\ currently_tracked_orders_ids = LastCall.ids
        /\ \A i \in DeleteCalls : tick_calls[i].ids \cap tracked_at_start = {}
        /\ \A id \in OwnOpenOrders :
              \/ id \in currently_tracked_orders_ids
              \/ id \in tracked_at_start
              \/ \E i \in DeleteCalls : id \in tick_calls[i].ids

\* A tick has cancelled older orders and placed new ones, and the orders of the
\* placement before it are still open on the venue.
C5_Witness ==
    /\ PlacedAndDone
    /\ DeleteCalls # {}
    /\ tracked_at_start # {}
    /\ tracked_at_start \subseteq venue_open
    /\ tracked_at_start \cap currently_tracked_orders_ids = {}

\* The tick before this one placed orders, and this tick reads the same book,
\* ticker, fills and balances under the same configuration.
SecondIdenticalTick ==
    /\ previous_tick.outcome = "placed"
    /\ previous_tick.data = venue_data
    /\ tick_pc \notin {"none", "created"}

\* C6 as the specification states it: the second of two identical back-to-back
\* ticks places no new order and cancels none of the first tick's orders.
C6_SecondTickIsNoOp ==
    SecondIdenticalTick =>
        /\ PostCalls = {}
        /\ \A i \in DeleteCalls : tick_calls[i].ids \cap previous_tick.ids = {}

\* C6, amended: the second of two identical back-to-back ticks builds the same
\* proposal and cancels none of the first tick's orders, but it places the
\* proposal again, under new ids.
C6_SecondTickPlacesTheSameProposalAgain ==
    SecondIdenticalTick =>
        /\ candidate_orders \in {<<>>, previous_tick.orders}
        /\ tick_pc = "post_orders" => candidate_orders = previous_tick.orders
        /\ \A i \in DeleteCalls : tick_calls[i].ids \cap previous_tick.ids = {}
        /\ (tick_pc = "done" /\ AllCallsOk) =>
              /\ LastCall.op = "post_orders"
              /\ candidate_orders = previous_tick.orders
              /\ Cardinality(LastCall.ids) = Len(previous_tick.orders)
              /\ LastCall.ids \cap previous_tick.ids = {}

\* The second identical tick has ended: it has cancelled stale orders and has
\* placed its proposal while the first tick's orders are open.
C6_Witness ==
    /\ SecondIdenticalTick
    /\ tick_pc = "done"
    /\ AllCallsOk
    /\ DeleteCalls # {}
    /\ previous_tick.ids \subseteq venue_open

Range(f) == {f[i] : i \in DOMAIN f}

\* C7: under every interleaving of start, the tick and stop, at most one
\* on_tick is in flight: start launches a task only when no task exists and the
\* busy flag is clear, it stays suspended for as long as the task it launched
\* has not been reaped, and the busy flag is set only inside a running tick.
C7_AtMostOneTickInFlight ==
    [][ /\ (start_pc = "loop" /\ start_pc' = "await_tick") =>
              /\ tick_pc = "none"
              /\ tasks_on_tick = "None"
              /\ ~is_busy
              /\ tick_pc' = "created"
        /\ tick_pc' # "none" => start_pc' = "await_tick"
        /\ is_busy' => tick_pc' \in TickAwaits
      ]_vars

\* stop has cancelled a tick that is waiting for the venue, after earlier
\* ticks have placed orders; the tick has not ended yet.
C7_Witness ==
    /\ is_busy
    /\ cancel_requested
    /\ stop_pc = "await_tick"
    /\ returned_ids # {}

\* C8: whenever a running on_tick ends, by its last step, by a step that
\* raises or by the cancellation of stop, the busy flag is false and
\* refresh_timestamp is the time plus the waiting time of the tick interval;
\* no tick that has ended leaves the busy flag set.
C8_TickEndClearsBusyAndRearms ==
    [][ /\ (\/ tick_pc \in TickAwaits \cup {"created"} /\ tick_pc' = "done"
            \/ tick_pc \in TickAwaits /\ tick_pc' = "cancelled") =>
              /\ ~is_busy'
              /\ refresh_timestamp' =
                    now' + (configuration.tick_interval - (now' % configuration.tick_interval))
              /\ refresh_timestamp' > now'
        /\ tick_pc' \in {"none", "done", "cancelled"} => ~is_busy'
      ]_vars

\* A tick that stop cancelled in the middle of a request has ended, at a time
\* that is no multiple of the tick interval.
C8_Witness ==
    /\ tick_pc = "cancelled"
    /\ tick_calls # <<>>
    /\ LastCall.status = "cancelled"
    /\ now % configuration.tick_interval # 0
    /\ ~is_busy
    /\ refresh_timestamp = now + (configuration.tick_interval - (now % configuration.tick_interval))

\* C9 as the specification states it: when a stop that found a tick task (in
\* flight or finished) has ended, the hooks the configuration asks for have
\* been requested from the venue.
C9_StopRunsItsHooks ==
    (/\ stop_pc \in {"returned", "raised"}
     /\ stop_found \in {"tick in flight", "finished task"}
     /\ market.set) =>
        /\ configuration.cancel_all_orders_on_stop => "delete_orders_all" \in Range(stop_calls)
        /\ configuration.withdraw_market_on_stop => "market_withdraw" \in Range(stop_calls)

\* C10 as the specification states it: once stop has cleared can_run, start
\* launches no on_tick.
C10_NoTickLaunchedAfterStop ==
    [][ stop_pc # "idle" => ~(tick_pc = "none" /\ tick_pc' = "created") ]_vars

\* C11 as the specification states it: after initialize has failed and called
\* exit, start launches no on_tick.
C11_NoTickAfterFailedInitialize ==
    "initialize" \in exit_calls => (tick_pc = "none" /\ tasks_on_tick = "None")

\* C12 as the specification states it: a configured price_strategy that is
\* none of the defined names makes initialize fail, so that the worker is
\* never initialized.
C12_UnknownPriceStrategyFailsInitialize ==
    configuration.price_strategy \notin PriceStrategy => ~initialized

\* C13 as the specification states it: after initialize has succeeded, start
\* never ends by raising, whether a request of a tick fails or stop cancels the
\* tick in flight.
C13_StartNeverRaises ==
    initialized => start_pc # "raised"

\* C14 as the specification states it: with run_only_once set, once a tick has
\* placed its orders and ended, start launches no other on_tick.
C14_RunOnlyOnceLaunchesOneTick ==
    (configuration.run_only_once /\ previous_tick.outcome = "placed") =>
        (tick_pc = "none" /\ tasks_on_tick = "None")

\* ---- the proposal builder, applied on its own
\* The builder has returned a proposal (it has not raised).
ProposalBuilt == Returned("create_proposal") /\ applied.result.ok
LayersOf == applied.cfg.layers
PriceSet(levels) == {levels[i].price : i \in DOMAIN levels}
\* The best ask and the best bid of the raw book.
LeastPrice(levels) ==
    CHOOSE p \in PriceSet(levels) : \A q \in PriceSet(levels) : RLe(p, q)
GreatestPrice(levels) ==
    CHOOSE p \in PriceSet(levels) : \A q \in PriceSet(levels) : RLe(q, p)
\* The reference price: the ticker, the mean of the best ask and best bid, or
\* the weighted middle price that is configured.
ReferencePrice ==
    IF applied.cfg.price_strategy = "TICKER" THEN applied.ticker
    ELSE IF applied.cfg.middle_price_strategy \in {"SAP", "unset"}
    THEN RDiv(RAdd(LeastPrice(applied.book.asks), GreatestPrice(applied.book.bids)), Dec(2))
    ELSE calculate_middle_price(parse_order_book(applied.book).bids,
                                parse_order_book(applied.book).asks,
                                applied.cfg.middle_price_strategy)
SideOf(k, is_bid) == IF is_bid THEN LayersOf[k].bid ELSE LayersOf[k].ask
\* What a layer's side asks for: the price and the size of each of its orders.
SidePrice(k, is_bid) ==
    IF is_bid
    THEN RMul(Rat(100 - SideOf(k, is_bid).spread_percentage, 100),
              RMin(ReferencePrice, LeastPrice(applied.book.asks)))
    ELSE RMul(Rat(100 + SideOf(k, is_bid).spread_percentage, 100),
              RMax(ReferencePrice, GreatestPrice(applied.book.bids)))
SideSize(k, is_bid) ==
    IF SideOf(k, is_bid).quantity > 0
    THEN RDiv(RDiv(Dec(SideOf(k, is_bid).max_liquidity_in_dollars), SidePrice(k, is_bid)),
              Dec(SideOf(k, is_bid).quantity))
    ELSE DECIMAL_ZERO
PriceTooLow(k, is_bid) == RLt(SidePrice(k, is_bid), applied.mkt.minimumPriceIncrement)
SizeTooLow(k, is_bid) == RLt(SideSize(k, is_bid), applied.mkt.minimumOrderSize)
SideViable(k, is_bid) == ~PriceTooLow(k, is_bid) /\ ~SizeTooLow(k, is_bid)
\* Order o is one a layer's side asks for.
OrderOfSide(o, k, is_bid) ==
    /\ o.side = (IF is_bid THEN "BUY" ELSE "SELL")
    /\ o.price = SidePrice(k, is_bid)
    /\ o.amount = SideSize(k, is_bid)

\* C15: every order of a proposal has a price of at least minimumPriceIncrement
\* and an amount of at least minimumOrderSize, it is an order of a layer side
\* that passes both gates, and a layer side that fails a gate has no order in
\* the proposal.
C15_ProposalOrdersPassTheGates ==
    ProposalBuilt =>
        /\ \A i \in DOMAIN applied.result.orders :
              /\ RLe(applied.mkt.minimumPriceIncrement, applied.result.orders[i].price)
              /\ RLe(applied.mkt.minimumOrderSize, applied.result.orders[i].amount)
              /\ \E k \in DOMAIN LayersOf, is_bid \in BOOLEAN :
                    SideViable(k, is_bid) /\ OrderOfSide(applied.result.orders[i], k, is_bid)
        /\ \A k \in DOMAIN LayersOf, is_bid \in BOOLEAN :
              ~SideViable(k, is_bid) =>
                 \A i \in DOMAIN applied.result.orders :
                    ~OrderOfSide(applied.result.orders[i], k, is_bid)

\* A proposal with orders, built from layers of which one side fails the price
\* gate and another side, with a price that passes, fails the size gate.
C15_Witness ==
    /\ ProposalBuilt
    /\ applied.result.orders # <<>>
    /\ \E k \in DOMAIN LayersOf, is_bid \in BOOLEAN : PriceTooLow(k, is_bid)
    /\ \E k \in DOMAIN LayersOf, is_bid \in BOOLEAN :
          /\ SideOf(k, is_bid).quantity > 0
          /\ ~PriceTooLow(k, is_bid)
          /\ SizeTooLow(k, is_bid)

\* C16: every bid of a proposal has a price of at most the best ask of the
\* book the proposal was computed from, and every ask a price of at least the
\* best bid (no bound for a bid when there is no ask, 0 when there is no bid).
C16_ProposalDoesNotCrossTheBook ==
    ProposalBuilt =>
        \A i \in DOMAIN applied.result.orders :
           IF applied.result.orders[i].side = "BUY"
           THEN applied.book.asks # <<>> =>
                   RLe(applied.result.orders[i].price, LeastPrice(applied.book.asks))
           ELSE IF applied.book.bids = <<>>
                THEN RLe(DECIMAL_ZERO, applied.result.orders[i].price)
                ELSE RLe(GreatestPrice(applied.book.bids), applied.result.orders[i].price)

\* A proposal with a bid, built with a reference price above the best ask: the
\* bid is priced from the best ask.
C16_Witness ==
    /\ ProposalBuilt
    /\ applied.book.asks # <<>>
    /\ applied.book.bids # <<>>
    /\ RLt(LeastPrice(applied.book.asks), ReferencePrice)
    /\ \E i \in DOMAIN applied.result.orders :
          /\ applied.result.orders[i].side = "BUY"
          /\ RLt(applied.result.orders[i].price, LeastPrice(applied.book.asks))

RECURSIVE Flatten(_)
Flatten(seqs) == IF seqs = <<>> THEN <<>> ELSE Head(seqs) \o Flatten(Tail(seqs))
\* The orders a layer's side contributes, without their client ids.
Copies(k, is_bid) ==
    IF SideViable(k, is_bid)
    THEN [i \in 1..SideOf(k, is_bid).quantity |->
            [side |-> IF is_bid THEN "BUY" ELSE "SELL",
             price |-> SidePrice(k, is_bid), amount |-> SideSize(k, is_bid)]]
    ELSE <<>>
ExpectedOrders ==
    Flatten([k \in DOMAIN LayersOf |-> Copies(k, TRUE)]) \o
    Flatten([k \in DOMAIN LayersOf |-> Copies(k, FALSE)])
RECURSIVE IntOf(_)
\* The integer a string of decimal digits stands for.
IntOf(digits) ==
    IF digits = <<>> THEN 0 ELSE 10 * IntOf(SubSeq(digits, 1, Len(digits) - 1)) + digits[Len(digits)]

\* C17: a proposal is the bids of all layers in layer order followed by the
\* asks of all layers in layer order, and the client id of its i-th order is
\* the string of i; a layer side that a gate skips takes no client id.
C17_BidsThenAsksNumberedFromOne ==
    ProposalBuilt =>
        /\ Len(applied.result.orders) = Len(ExpectedOrders)
        /\ \A i \in DOMAIN applied.result.orders :
              /\ applied.result.orders[i].side = ExpectedOrders[i].side
              /\ applied.result.orders[i].price = ExpectedOrders[i].price
              /\ applied.result.orders[i].amount = ExpectedOrders[i].amount
              /\ applied.result.orders[i].client_id # <<>>
              /\ applied.result.orders[i].client_id[1] # 0
              /\ IntOf(applied.result.orders[i].client_id) = i

\* A proposal of two layers with bids and asks, in which a side of the first
\* layer is skipped and sides of the second layer are not.
C17_Witness ==
    /\ ProposalBuilt
    /\ Len(LayersOf) = 2
    /\ ~SideViable(1, FALSE)
    /\ SideViable(1, TRUE) /\ SideViable(2, TRUE) /\ SideViable(2, FALSE)
    /\ SideOf(1, TRUE).quantity = 2
    /\ Len(applied.result.orders) = 4

RECURSIVE SpentBefore(_, _, _, _)
\* The sum of the amounts of the admitted orders of one side before index i.
SpentBefore(p, admitted, i, side) ==
    IF i <= 1 THEN DECIMAL_ZERO
    ELSE IF (i - 1) \in admitted /\ p[i - 1].side = side
         THEN RAdd(SpentBefore(p, admitted, i - 1, side), p[i - 1].amount)
         ELSE SpentBefore(p, admitted, i - 1, side)

\* What is left of the free balance of the side of order i when the walk
\* reaches it: quote for a BUY, base for a SELL.
FreeAt(p, bal, admitted, i) ==
    RSub(IF p[i].side = "BUY" THEN bal.quote ELSE bal.base,
         SpentBefore(p, admitted, i, p[i].side))

RECURSIVE Restrict(_, _, _)
\* The orders of p whose index is in admitted and at least i, in order.
Restrict(p, admitted, i) ==
    IF i > Len(p) THEN <<>>
    ELSE (IF i \in admitted THEN <<p[i]>> ELSE <<>>) \o Restrict(p, admitted, i + 1)

BudgetExample ==
    /\ Len(applied.proposal) = 3
    /\ applied.proposal[1].side = "BUY" /\ applied.proposal[1].amount = Dec(5)
    /\ applied.proposal[2].side = "BUY" /\ applied.proposal[2].amount = Dec(5)
    /\ applied.proposal[3].side = "SELL" /\ applied.proposal[3].amount = Dec(3)
    /\ applied.balances.quote = Dec(7)
    /\ applied.balances.base = Dec(4)

\* C18: the budget adjuster admits a BUY exactly when what is left of the free
\* quote balance is strictly greater than its amount, a SELL exactly when what
\* is left of the free base balance is strictly greater than its amount, an
\* admitted order lowers the balance of its side by its amount, an order that
\* does not fit is skipped and the walk goes on, and the result is the admitted
\* orders in the order of the candidate proposal; [BUY 5, BUY 5, SELL 3] with
\* quote 7 and base 4 gives [BUY 5, SELL 3].
C18_BudgetWalkAdmitsStrictlySmaller ==
    Returned("adjust_proposal_to_budget") =>
        /\ \E admitted \in SUBSET DOMAIN applied.proposal :
              /\ \A i \in DOMAIN applied.proposal :
                    i \in admitted <=>
                        RLt(applied.proposal[i].amount,
                            FreeAt(applied.proposal, applied.balances, admitted, i))
              /\ applied.result = Restrict(applied.proposal, admitted, 1)
        /\ BudgetExample =>
              applied.result = <<applied.proposal[1], applied.proposal[3]>>

\* The example of the claim has returned: the second BUY was skipped and the
\* SELL after it admitted.
C18_Witness ==
    /\ Returned("adjust_proposal_to_budget")
    /\ BudgetExample
    /\ Len(applied.result) = 2
    /\ applied.result[1].client_id = str(1)
    /\ applied.result[2].client_id = str(3)

\* C19: for a positive interval and a clock reading in whole milliseconds the
\* waiting time is the interval minus the reading modulo the interval; it is
\* positive and at most the interval, and the reading plus the waiting time is
\* a multiple of the interval. Interval 1000 and a reading that ends in 345
\* give 655; a reading on the grid gives the whole interval, never 0.
C19_WaitingTimeReachesTheNextGridPoint ==
    Returned("calculate_waiting_time") =>
        /\ applied.result = applied.number - (applied.t % applied.number)
        /\ 0 < applied.result
        /\ applied.result <= applied.number
        /\ (applied.t + applied.result) % applied.number = 0
        /\ (applied.number = 1000 /\ applied.t % 1000 = 345) => applied.result = 655
        /\ applied.t % applied.number = 0 => applied.result = applied.number

\* Interval 1000 at the reading 12345 has given 655.
C19_Witness ==
    /\ Returned("calculate_waiting_time")
    /\ applied.number = 1000
    /\ applied.t = 12345
    /\ applied.result = 655

\* An interval of more than one millisecond at a reading on the grid has
\* given the whole interval.
C19_WitnessOnGrid ==
    /\ Returned("calculate_waiting_time")
    /\ applied.number > 1
    /\ applied.t > 0
    /\ applied.t % applied.number = 0
    /\ applied.result = applied.number

\* The venue ids of the open orders that carry one client id.
GroupIds(client_id) ==
    { applied.open_orders[i].id :
      i \in { j \in DOMAIN applied.open_orders :
               applied.open_orders[j].clientId = client_id } }

\* The id of a group that list.sort puts last: no id of the group is after it
\* in the order of strings.
LastId(ids) == CHOOSE x \in ids : \A y \in ids : ~StrLt(x, y)

\* C20: the duplicate scan returns no id of an order whose clientId is "0",
\* and for every other clientId carried by k open orders it returns exactly the
\* k-1 ids of the group other than its greatest id, each once; a clientId
\* carried by one order gives nothing. Ids are strings and the greatest id is
\* the greatest string.
C20_DuplicateScanKeepsTheGreatestId ==
    Returned("get_duplicated_orders_ids") =>
        /\ Range(applied.result) \cap GroupIds("0") = {}
        /\ Range(applied.result) \subseteq
              UNION { GroupIds(c) : c \in ClientIds \ {"0"} }
        /\ Cardinality(Range(applied.result)) = Len(applied.result)
        /\ \A c \in ClientIds \ {"0"} :
              GroupIds(c) # {} =>
                  /\ Range(applied.result) \cap GroupIds(c) =
                        GroupIds(c) \ {LastId(GroupIds(c))}
                  /\ Cardinality(Range(applied.result) \cap GroupIds(c)) =
                        Cardinality(GroupIds(c)) - 1

\* A manually created order and two orders that share another client id, with
\* ids of different lengths: "10" comes before "9" in the order of strings, so
\* "9" is kept and "10" alone is returned.
C20_Witness ==
    /\ Returned("get_duplicated_orders_ids")
    /\ Cardinality(GroupIds("0")) = 1
    /\ \E c \in ClientIds \ {"0"} : GroupIds(c) = {<<9>>, <<1, 0>>}
    /\ applied.result = <<<<1, 0>>>>

\* Two manually created orders and nothing else: the scan has returned
\* nothing.
C20_WitnessManualOrdersOnly ==
    /\ Returned("get_duplicated_orders_ids")
    /\ Cardinality(GroupIds("0")) = 2
    /\ Len(applied.open_orders) = 2
    /\ applied.result = <<>>

\* The reference price the tick in flight selects is not a positive number:
\* MIDDLE on a book empty on both sides, a ticker that is not positive, or
\* LAST_FILL with no filled order.
InvalidReference ==
    \/ /\ configuration.price_strategy = "MIDDLE"
       /\ venue_data.book.bids = <<>>
       /\ venue_data.book.asks = <<>>
    \/ /\ configuration.price_strategy = "TICKER"
       /\ RLe(venue_data.ticker, DECIMAL_ZERO)
    \/ /\ configuration.price_strategy = "LAST_FILL"
       /\ venue_data.filled = <<>>

\* The ticker request of the tick in flight has been answered, so the
\* proposal build has run.
TickerAnswered ==
    \E i \in DOMAIN tick_calls :
        tick_calls[i].op = "get_ticker" /\ tick_calls[i].status = "ok"

C21_WitnessLastFill ==
    /\ configuration.price_strategy = "LAST_FILL"
    /\ previous_tick.outcome = "no proposal"
    /\ InvalidReference
    /\ TickerAnswered

\* A hook of initialize has failed.
InitializeHookFailed ==
    \E i \in DOMAIN initialize_calls : initialize_calls[i].status = "failed"

\* The withdraw of the tick in flight has failed.
TickWithdrawFailed ==
    /\ tick_calls # <<>>
    /\ tick_calls[1].op = "market_withdraw"
    /\ tick_calls[1].status = "failed"

\* C22: a failure of the cancel-all or of the market withdraw of initialize is
\* ignored: once the hooks are answered initialize has set the refresh time
\* to the next grid point and the worker is initialized, whether or not a hook
\* failed; and a failed withdraw of a tick is followed by the tick's request
\* for the open orders.
C22_HookFailuresAreIgnored ==
    [][ /\ ( /\ start_pc \in {"init_cancel_all", "init_withdraw"}
             /\ start_pc' = "loop" ) =>
                /\ initialized'
                /\ refresh_timestamp' =
                      configuration.tick_interval
                      - (now % configuration.tick_interval) + now
                /\ refresh_timestamp' > now
        /\ ( /\ start_pc = "init_cancel_all"
             /\ start_pc' # start_pc ) =>
                start_pc' = IF configuration.withdraw_market_on_start
                            THEN "init_withdraw" ELSE "loop"
        /\ TickWithdrawFailed' =>
                /\ Len(tick_calls') >= 2
                /\ tick_calls'[2].op = "get_open_orders"
                /\ tick_calls'[2].status # "none"
      ]_vars

\* The cancel-all of initialize has failed and a tick launched afterwards has
\* asked the venue for the order book.
C22_Witness ==
    /\ initialize_calls # <<>>
    /\ initialize_calls[1].op = "delete_orders_all"
    /\ initialize_calls[1].status = "failed"
    /\ initialized
    /\ tick_pc = "get_order_book"

\* The market withdraw of initialize has failed and a tick has placed orders.
C22_WitnessWithdraw ==
    /\ \E i \in DOMAIN initialize_calls :
          /\ initialize_calls[i].op = "market_withdraw"
          /\ initialize_calls[i].status = "failed"
    /\ initialized
    /\ tick_calls # <<>>
    /\ LastCall.op = "post_orders"
    /\ LastCall.status = "ok"

\* The withdraw of a tick has failed and the tick has placed orders.
C22_WitnessTick ==
    /\ TickWithdrawFailed
    /\ LastCall.op = "post_orders"
    /\ LastCall.status = "ok"

\* The builder has returned, or raised, for price strategy MIDDLE without a
\* configured middle_price_strategy.
UnconfiguredMiddle ==
    /\ Returned("create_proposal")
    /\ applied.cfg.price_strategy = "MIDDLE"
    /\ applied.cfg.middle_price_strategy = "unset"

\* C23: with price strategy MIDDLE and no middle_price_strategy configured the
\* reference price of the proposal is the one _get_market_middle_price finds
\* without a strategy: VWAP first, and WAP, SAP and the ticker only after a
\* failure of the attempt before.
C23_UnconfiguredMiddleTriesVWAPFirst ==
    UnconfiguredMiddle =>
        applied.result =
            proposal_at(get_market_middle_price(parse_order_book(applied.book).bids,
                                                parse_order_book(applied.book).asks,
                                                "None"),
                        parse_order_book(applied.book), applied.cfg, applied.mkt)

\* The field a getter caches in.
CacheOf(op) ==
    CASE op = "get_balances" -> balances
      [] op = "get_ticker" -> tickers
      [] op = "get_open_orders" -> open_orders
      [] op = "get_filled_orders" -> filled_orders

GetterReturned == applied.op \in GetterNames /\ applied.done

\* C24: a cached getter called with use_cache after an earlier fetch has
\* cached a value returns that value without a gateway call; called without
\* use_cache, or with nothing fetched yet, it asks the gateway and stores the
\* answer in the cache.
C24_GettersFetchWhenNothingIsCached ==
    GetterReturned =>
        IF applied.use_cache /\ applied.op \in applied.fetched
        THEN /\ ~applied.result.raised
             /\ ~applied.result.gateway
             /\ applied.result.value = CacheOf(applied.op).v
        ELSE /\ applied.result.gateway
             /\ applied.answer.ok =>
                   /\ ~applied.result.raised
                   /\ applied.result.value = applied.answer.v
                   /\ CacheOf(applied.op) = Some(applied.answer.v)

\* The place of a step in a tick: the withdraw, the three refreshes, the
\* cancel step's request, the book and the ticker, and last the placement or
\* the end of a tick that has nothing to place.
StepRank(op) ==
    CASE op = "market_withdraw" -> 0
      [] op = "get_open_orders" -> 1
      [] op = "get_filled_orders" -> 2
      [] op = "get_balances" -> 3
      [] op = "delete_orders" -> 4
      [] op = "get_order_book" -> 5
      [] op = "get_ticker" -> 6
      [] op \in {"post_orders", "no orders", "no proposal"} -> 7

\* C25: the gateway requests of a tick come in one order: the open orders, the
\* filled orders and the balances, then the delete_orders of the cancel step if
\* there is one, then the order book and the ticker, then, the proposal built
\* and cut to the budget, post_orders if there is something to place.  A
\* request is sent only when the one before is answered, the delete_orders of a
\* tick comes before its post_orders, and the tick's withdraw, when configured,
\* comes before them all.
C25_TickRequestsInFixedOrder ==
    /\ \A i \in DOMAIN tick_calls :
          /\ i = 1 =>
                StepRank(tick_calls[i].op) =
                    (IF configuration.withdraw_market_on_tick THEN 0 ELSE 1)
          /\ i > 1 =>
                /\ tick_calls[i - 1].status = "ok"
                   \/ (i = 2 /\ tick_calls[1].op = "market_withdraw"
                              /\ tick_calls[1].status = "failed")
                /\ \/ StepRank(tick_calls[i].op) = StepRank(tick_calls[i - 1].op) + 1
                   \/ /\ tick_calls[i - 1].op = "get_balances"
                      /\ tick_calls[i].op = "get_order_book"
    /\ \A i \in DeleteCalls : \A j \in PostCalls : i < j
    /\ candidate_orders # <<>> => TickerAnswered
    /\ PostCalls # {} => /\ candidate_orders # <<>>
                         /\ TickerAnswered

\* A tick with a cancel request has placed orders: seven requests, the
\* delete_orders fourth and the post_orders last.
C25_Witness ==
    /\ Len(tick_calls) = 7
    /\ tick_calls[4].op = "delete_orders"
    /\ tick_calls[4].ids # {}
    /\ tick_calls[7].op = "post_orders"
    /\ tick_calls[7].status = "ok"

\* C26 as the specification states it: a stop requested while start's loop
\* waits between two ticks is taken at a suspension point of the waiting loop,
\* so that start launches no on_tick while the request is pending.
C26_StopRequestTakenBeforeNextTick ==
    [][ stop_requested => ~(tick_pc = "none" /\ tick_pc' = "created") ]_vars

\* C27: tracked_orders_ids only grows, no step of start, of a tick or of stop
\* takes an id away from it, and in every state it holds exactly the ids that
\* the post_orders responses received so far have returned.
C27_TrackedIdsIsEveryReturnedId ==
    /\ [](tracked_orders_ids = returned_ids)
    /\ [][tracked_orders_ids \subseteq tracked_orders_ids']_vars

\* A second placement has been answered: the list holds the ids of both.
C27_Witness ==
    /\ previous_tick.outcome = "placed"
    /\ tick_calls # <<>>
    /\ LastCall.op = "post_orders"
    /\ LastCall.status = "ok"
    /\ previous_tick.ids # {}
    /\ LastCall.ids # {}
    /\ previous_tick.ids \cap LastCall.ids = {}
    /\ tracked_orders_ids = previous_tick.ids \cup LastCall.ids

\* stop has ended after a placement, a failed tick and a tick with nothing to
\* place came before: the list still holds the ids.
C27_WitnessAfterStop ==
    /\ stop_pc \in {"returned", "raised"}
    /\ tracked_orders_ids # {}
    /\ tracked_orders_ids = returned_ids

\* A step of the tick other than its withdraw has raised: a request has failed,
\* or the proposal could not be built.
TickStepFailed(i) ==
    \/ tick_calls[i].status = "failed" /\ tick_calls[i].op # "market_withdraw"
    \/ tick_calls[i].op = "no proposal"

\* C28: when a step of on_tick other than the tick's withdraw raises, no later
\* step of the tick runs: the failed step is the last of the tick, a failed
\* delete_orders is followed by no post_orders, and currently_tracked_orders_ids
\* is what it was when the tick began.  Both tracking lists change only in the
\* step in which post_orders answers a placement of at least one order.
C28_FailedStepEndsTheTick ==
    /\ [](\A i \in DOMAIN tick_calls :
            TickStepFailed(i) =>
                /\ i = Len(tick_calls)
                /\ tick_pc = "done"
                /\ ~is_busy
                /\ \A j \in DOMAIN tick_calls :
                      ~(tick_calls[j].op = "post_orders" /\ tick_calls[j].status = "ok")
                /\ tick_calls[i].op = "delete_orders" => PostCalls = {}
                /\ currently_tracked_orders_ids = tracked_at_start)
    /\ [][ (\/ tracked_orders_ids' # tracked_orders_ids
            \/ currently_tracked_orders_ids' # currently_tracked_orders_ids) =>
              /\ tick_pc = "post_orders"
              /\ candidate_orders # <<>>
              /\ tick_calls'[Len(tick_calls')].op = "post_orders"
              /\ tick_calls'[Len(tick_calls')].status = "ok"
              /\ currently_tracked_orders_ids' = tick_calls'[Len(tick_calls')].ids ]_vars

\* The delete_orders of a tick has failed: the tick has ended with the orders
\* it tracked when it began.
C28_Witness ==
    /\ tick_calls # <<>>
    /\ LastCall.op = "delete_orders"
    /\ LastCall.status = "failed"
    /\ LastCall.ids # {}
    /\ tracked_at_start # {}
    /\ currently_tracked_orders_ids = tracked_at_start

\* The post_orders of a tick that follows a placement has failed.
C28_WitnessPostFailed ==
    /\ tick_calls # <<>>
    /\ LastCall.op = "post_orders"
    /\ LastCall.status = "failed"
    /\ candidate_orders # <<>>
    /\ tracked_at_start # {}
    /\ tracked_orders_ids = returned_ids

\* The cancel step of the tick has been reached: the three refreshes have been
\* answered.
CancelStepReached ==
    \E i \in DOMAIN tick_calls :
        tick_calls[i].op = "get_balances" /\ tick_calls[i].status = "ok"

\* The ids placed before the most recent placement the tick found: tracked ids
\* that are neither currently tracked when the tick began nor placed by it.
PlacedEarlier ==
    (tracked_orders_ids \ tracked_at_start) \
        UNION {tick_calls[j].ids : j \in PostCalls}

\* C29: an order of a successful placement is in no delete_orders request for
\* as long as no later placement has replaced currently_tracked_orders_ids:
\* the request of a tick holds none of the ids that were currently tracked
\* when the tick began, whatever the ticks in between placed or failed to
\* place.  In the first tick after the next placement, the cancel step asks the
\* venue to delete the orders placed earlier that the tick's refresh found
\* open.
C29_PlacementCancelledOnlyAfterTheNext ==
    /\ \A i \in DeleteCalls :
          /\ tick_calls[i].ids \cap tracked_at_start = {}
          /\ PostCalls = {} => tick_calls[i].ids \cap currently_tracked_orders_ids = {}
    /\ (previous_tick.outcome = "placed" /\ CancelStepReached) =>
          /\ tracked_at_start = previous_tick.ids
          /\ \A id \in PlacedEarlier \cap open_orders.v :
                \E i \in DeleteCalls : id \in tick_calls[i].ids

\* The tick after the second placement asks the venue to delete the open
\* order of the first placement and not the orders of the second.
C29_Witness ==
    /\ previous_tick.outcome = "placed"
    /\ CancelStepReached
    /\ PlacedEarlier \cap open_orders.v # {}
    /\ tracked_at_start \subseteq open_orders.v
    /\ \E i \in DeleteCalls : tick_calls[i].ids = PlacedEarlier \cap open_orders.v

\* After a placement, a tick with nothing to place: the tick that follows
\* finds the orders of the placement open and sends no delete_orders.
C29_WitnessKeptWhileNothingIsPlaced ==
    /\ previous_tick.outcome \in {"no orders", "no proposal", "failed"}
    /\ CancelStepReached
    /\ tick_pc = "done"
    /\ tracked_at_start # {}
    /\ tracked_at_start \subseteq open_orders.v
    /\ DeleteCalls = {}

RECURSIVE AmountOf(_, _)
\* The sum of the amounts of the orders of one side.
AmountOf(orders, side) ==
    IF orders = <<>> THEN DECIMAL_ZERO
    ELSE IF Head(orders).side = side
         THEN RAdd(Head(orders).amount, AmountOf(Tail(orders), side))
         ELSE AmountOf(Tail(orders), side)

\* The free balance that orders of a side are taken from.
FreeOf(side) == IF side = "BUY" THEN applied.balances.quote ELSE applied.balances.base

\* The indices of the candidate proposal whose order is in the result.
Admitted == {i \in DOMAIN applied.proposal :
                \E k \in DOMAIN applied.result : applied.result[k] = applied.proposal[i]}

\* C30: for every proposal and free balances, when the budget adjuster admits
\* an order of a side, the amounts of all admitted orders of that side add up
\* to strictly less than the free balance of the side (quote for BUY, base for
\* SELL); an order whose amount is exactly what is left of the balance when
\* the walk reaches it is dropped; and a balance that is positive at the start
\* stays positive after every order of the walk.
C30_AdmittedAmountsStayBelowTheBalance ==
    Returned("adjust_proposal_to_budget") =>
        /\ \A side \in {"BUY", "SELL"} :
              /\ (\E k \in DOMAIN applied.result : applied.result[k].side = side) =>
                    RLt(AmountOf(applied.result, side), FreeOf(side))
              /\ RLt(DECIMAL_ZERO, FreeOf(side)) =>
                    \A i \in 1..(Len(applied.proposal) + 1) :
                        RLt(DECIMAL_ZERO,
                            RSub(FreeOf(side),
                                 SpentBefore(applied.proposal, Admitted, i, side)))
        /\ \A i \in DOMAIN applied.proposal :
              applied.proposal[i].amount =
                  FreeAt(applied.proposal, applied.balances, Admitted, i)
              => i \notin Admitted

\* An order has been admitted and the next of its side, whose amount is all
\* that is left of the balance, dropped: two BUY of 3 with a quote balance of 6.
C30_Witness ==
    /\ Returned("adjust_proposal_to_budget")
    /\ Len(applied.proposal) >= 2
    /\ applied.proposal[1].side = "BUY" /\ applied.proposal[1].amount = Dec(3)
    /\ applied.proposal[2].side = "BUY" /\ applied.proposal[2].amount = Dec(3)
    /\ applied.balances.quote = Dec(6)
    /\ Admitted \cap {1, 2} = {1}
    /\ AmountOf(applied.result, "BUY") = Dec(3)

====
